---------------------------- MODULE Spec2Model ----------------------------
(***************************************************************************)
(* The air-quality backend: measurement cleaning and unit conversion       *)
(* (utils/data_processor.py), outlier detection, and the /predict handler  *)
(* with its prediction cache (main.py).                                    *)
(*                                                                         *)
(* Time is counted in whole hours.  Concentrations and AQI readings are    *)
(* integers (every conversion factor of the program is an integer);        *)
(* forecast values, which the program rounds to two decimals, are whole    *)
(* hundredths.                                                             *)
(*                                                                         *)
(* A Python value whose type matters (None, float, str, datetime) is a     *)
(* record [type, n, s]: n carries the number (or the hour of a timestamp), *)
(* s carries the text (or the timezone marker of a timestamp).             *)
(***************************************************************************)
EXTENDS Integers, Sequences, FiniteSets, TLC

VARIABLES
    now,             \* datetime.utcnow(), in hours
    measurements,    \* clean_measurements: the raw batch passed in
    cleaned,         \* clean_measurements: the list returned
    clean_status,    \* "idle" | "returned"
    conv_in,         \* _convert_units: the (value, unit, parameter) passed in
    conv_out,        \* _convert_units: the tuple returned
    conv_again,      \* _convert_units applied to the tuple it returned
    norm_out,        \* _normalize_units: the tuple returned for conv_in
    out_call,        \* detect_outliers: <<measurements, parameter, method>>
    out_result,      \* detect_outliers: the list returned
    db,              \* the measurements table: its rows in insertion order
    prediction_cache,\* main.prediction_cache: its entries, one per key
    model_files,     \* the (city, parameter) pairs with a model file on disk
    forecaster,      \* main.forecaster: PyNone until get_forecaster() builds it
    request,         \* /predict: the last request
    response,        \* /predict: the answer to it
    log,             \* /predict: what the handler did for it
    np_random,       \* the state of numpy's global random generator
    minute,          \* datetime.utcnow(): the minutes past the hour
    gen_calls,       \* generate_deterministic_predictions: the calls made
    ml_call,         \* AirQualityForecaster: the last method call
    ml_result,       \* AirQualityForecaster: what it returned or raised
    ingest_call,     \* ingest_all_data: the configuration and the sources' outcomes
    ingest_result    \* ingest_all_data: what it returned

cleanVars == <<measurements, cleaned, clean_status>>
convVars == <<conv_in, conv_out, conv_again, norm_out>>
outVars == <<out_call, out_result>>
apiVars == <<db, prediction_cache, model_files, forecaster, request, response, log,
            np_random, minute, gen_calls, ml_call, ml_result,
            ingest_call, ingest_result>>

vars == <<now, cleanVars, convVars, outVars, apiVars>>

-----------------------------------------------------------------------------
(* Python values *)

PyNone == [type |-> "NoneType", n |-> 0, s |-> ""]
PyFloat(x) == [type |-> "float", n |-> x, s |-> ""]
PyInt(x) == [type |-> "int", n |-> x, s |-> ""]
\* a str that is not the text of a number or of a timestamp
PyText(t) == [type |-> "str", n |-> 0, s |-> t]
\* the str that spells the number x, e.g. "12"
PyNumeral(x) == [type |-> "str", n |-> x, s |-> "numeral"]
\* the str that spells hour t in ISO-8601 with the given suffix:
\* "" (no offset), "Z", or "+00:00"
PyIso(t, suffix) == [type |-> "str", n |-> t, s |-> "iso" \o suffix]
\* a datetime object; tz is "naive" or "aware"
PyDatetime(t, tz) == [type |-> "datetime", n |-> t, s |-> tz]

\* what a function call ended with when it did not return
Raise(exc) == [type |-> "raise", n |-> 0, s |-> exc]

Truthy(v) ==
    CASE v.type = "NoneType" -> FALSE
      [] v.type = "str" -> ~(v.s = "" /\ v.n = 0)
      [] v.type \in {"float", "int"} -> v.n # 0
      [] OTHER -> TRUE

\* str.strip() on the strings of the model
strip(s) ==
    CASE s = " " -> ""
      [] s = " Austin " -> "Austin"
      [] s = " ppb " -> "ppb"
      [] s = " O3 " -> "O3"
      [] OTHER -> s

\* str.lower() on the strings of the model
lower(s) ==
    CASE s = "PM2.5" -> "pm2.5"
      [] s = "PM25" -> "pm25"
      [] s = "O3" -> "o3"
      [] s = "NO2" -> "no2"
      [] s = "HCHO" -> "hcho"
      [] s = "Ozone" -> "ozone"
      [] s = "CO" -> "co"
      [] s = "PPB" -> "ppb"
      [] s = "PPM" -> "ppm"
      [] s = "UG/M3" -> "ug/m3"
      [] s = "Furlong" -> "furlong"
      [] OTHER -> s

\* str.upper() on the parameter names of the model
upper(s) ==
    CASE s = "pm2.5" -> "PM2.5"
      [] s = "pm25" -> "PM25"
      [] s = "o3" -> "O3"
      [] s = "no2" -> "NO2"
      [] s = "hcho" -> "HCHO"
      [] s = "h2co" -> "H2CO"
      [] s = "ozone" -> "OZONE"
      [] s = "Ozone" -> "OZONE"
      [] s = "co" -> "CO"
      [] OTHER -> s

-----------------------------------------------------------------------------
(* DataProcessor: tables *)

\* timedelta(days=d), in hours
timedelta_days(d) == d * 24

\* PARAMETER_RANGES: parameter -> (min, max)
PARAMETER_RANGES ==
    [p \in {"PM2.5", "O3", "NO2", "HCHO"} |->
        IF p = "HCHO" THEN <<0, 50>> ELSE <<0, 500>>]

\* UNIT_CONVERSIONS: unit -> factor; 0 stands for the None entries
UNIT_CONVERSIONS ==
    [u \in {"µg/m³", "ug/m3", "mg/m³", "mg/m3", "ppm", "ppb", "mol/m²"} |->
        CASE u \in {"µg/m³", "ug/m3"} -> 1
          [] u \in {"mg/m³", "mg/m3"} -> 1000
          [] OTHER -> 0]

\* MOLECULAR_WEIGHTS: parameter -> g/mol
MOLECULAR_WEIGHTS ==
    [p \in {"PM2.5", "O3", "NO2", "HCHO"} |->
        CASE p = "PM2.5" -> 1
          [] p = "O3" -> 48
          [] p = "NO2" -> 46
          [] p = "HCHO" -> 30]

-----------------------------------------------------------------------------
(* DataProcessor: unit conversion.  A returned (value, unit) is the tuple  *)
(* <<value, unit>> with value a PyFloat or PyNone.                         *)

_convert_ppm_ppb_factor1(value, unit, parameter) ==
    IF parameter \notin DOMAIN MOLECULAR_WEIGHTS
    THEN <<PyNone, unit>>
    ELSE IF unit \in {"ppm", "ppb"}
         THEN <<PyFloat(value * 1 * MOLECULAR_WEIGHTS[parameter]), "µg/m³">>
         ELSE <<PyNone, unit>>

_convert_ppm_ppb(value, unit, parameter) ==
    IF parameter \notin DOMAIN MOLECULAR_WEIGHTS
    THEN <<PyNone, unit>>
    ELSE IF unit = "ppm"
         THEN <<PyFloat(value * 1000 * MOLECULAR_WEIGHTS[parameter]), "µg/m³">>
         ELSE IF unit = "ppb"
              THEN <<PyFloat(value * 1 * MOLECULAR_WEIGHTS[parameter]), "µg/m³">>
              ELSE <<PyNone, unit>>

_convert_units_mass_as_gas(value, unit0, parameter) ==
    LET unit == strip(lower(unit0)) IN
    IF unit \in DOMAIN UNIT_CONVERSIONS /\ UNIT_CONVERSIONS[unit] # 0
    THEN IF parameter \in DOMAIN MOLECULAR_WEIGHTS
         THEN <<PyFloat(value * UNIT_CONVERSIONS[unit]
                              * MOLECULAR_WEIGHTS[parameter]), "µg/m³">>
         ELSE <<PyFloat(value * UNIT_CONVERSIONS[unit]), "µg/m³">>
    ELSE IF unit \in {"ppm", "ppb"}
         THEN _convert_ppm_ppb(value, unit, parameter)
         ELSE <<PyFloat(value), unit>>

_convert_units(value, unit0, parameter) ==
    LET unit == strip(lower(unit0)) IN
    IF unit \in DOMAIN UNIT_CONVERSIONS /\ UNIT_CONVERSIONS[unit] # 0
    THEN <<PyFloat(value * UNIT_CONVERSIONS[unit]), "µg/m³">>
    ELSE IF unit \in {"ppm", "ppb"}
         THEN _convert_ppm_ppb(value, unit, parameter)
         ELSE IF unit \in {"mol/m²", "mol/m2"}
              THEN <<PyFloat(value), unit>>
              ELSE <<PyFloat(value), unit>>

_validate_value_range(value, parameter) ==
    IF parameter \notin DOMAIN PARAMETER_RANGES
    THEN TRUE
    ELSE PARAMETER_RANGES[parameter][1] <= value
         /\ value <= PARAMETER_RANGES[parameter][2]

param_mapping ==
    [a \in {"pm25", "pm2.5", "pm2_5", "o3", "ozone", "no2", "nitrogen_dioxide",
            "hcho", "formaldehyde", "h2co"} |->
        CASE a \in {"pm25", "pm2.5", "pm2_5"} -> "PM2.5"
          [] a \in {"o3", "ozone"} -> "O3"
          [] a \in {"no2", "nitrogen_dioxide"} -> "NO2"
          [] OTHER -> "HCHO"]

_normalize_parameter_name(parameter) ==
    LET key == strip(lower(parameter)) IN
    IF key \in DOMAIN param_mapping THEN param_mapping[key] ELSE upper(parameter)

-----------------------------------------------------------------------------
(* DataProcessor: cleaning.  A raw measurement is a record                 *)
(* [city, parameter, value, unit, date_utc, source]: city, parameter, unit *)
(* and source are strings ("" when the key is absent), value and date_utc  *)
(* are Python values.                                                      *)

\* the window of line 104: [now - 365 days, now + 1 day]
MaxAgeDays == 365
MaxAheadDays == 1

\* float(value)
float(v) ==
    CASE v.type \in {"float", "int"} -> PyFloat(v.n)
      [] v.type = "str" /\ v.s = "numeral" -> PyFloat(v.n)
      [] v.type = "str" -> Raise("ValueError")
      [] OTHER -> Raise("TypeError")

\* datetime.fromisoformat(s.replace('Z', '+00:00'))
fromisoformat(v) ==
    CASE v.s = "iso" -> PyDatetime(v.n, "naive")
      [] v.s \in {"isoZ", "iso+00:00"} -> PyDatetime(v.n, "aware")
      [] OTHER -> Raise("ValueError")

\* lines 94-100: the datetime, or PyNone when the record is to be dropped
parse_date_utc(date_utc) ==
    IF date_utc.type = "str"
    THEN IF fromisoformat(date_utc).type = "raise"
         THEN PyNone
         ELSE fromisoformat(date_utc)
    ELSE IF date_utc.type # "datetime" THEN PyNone ELSE date_utc

\* lines 75-127, the body of the try: the cleaned record, PyNone, or the
\* exception that escapes the body
clean_single_body(measurement, t) ==
    LET city == strip(measurement.city)
        parameter == strip(measurement.parameter)
        value == measurement.value
        unit == strip(measurement.unit)
        date_utc == measurement.date_utc
        source == measurement.source
    IN
    IF city = "" \/ parameter = "" \/ value.type = "NoneType" \/ unit = ""
       \/ ~Truthy(date_utc)
    THEN PyNone
    ELSE IF float(value).type = "raise"
    THEN PyNone
    ELSE LET dt == parse_date_utc(date_utc) IN
    IF dt = PyNone
    THEN PyNone
    ELSE IF dt.s = "aware"
    \* an offset-aware datetime compared with the naive utcnow()
    THEN Raise("TypeError")
    ELSE IF dt.n < t - timedelta_days(MaxAgeDays)
            \/ dt.n > t + timedelta_days(MaxAheadDays)
    THEN PyNone
    ELSE LET converted == _convert_units(float(value).n, unit, parameter) IN
    IF converted[1] = PyNone
    THEN PyNone
    ELSE IF ~_validate_value_range(converted[1].n, parameter)
    THEN PyNone
    ELSE [type |-> "dict",
          city |-> city,
          parameter |-> _normalize_parameter_name(parameter),
          value |-> converted[1].n,
          unit |-> converted[2],
          date_utc |-> dt,
          source |-> source,
          original_data |-> measurement]

\* lines 74-131: the try/except around the body
_clean_single_measurement(measurement, t) ==
    LET r == clean_single_body(measurement, t) IN
    IF r.type = "raise" THEN PyNone ELSE r

RECURSIVE clean_measurements_stop_at_failure(_, _)
clean_measurements_stop_at_failure(ms, t) ==
    IF ms = <<>>
    THEN <<>>
    ELSE LET r == _clean_single_measurement(Head(ms), t) IN
         IF r = PyNone
         THEN <<>>
         ELSE <<r>> \o clean_measurements_stop_at_failure(Tail(ms), t)

RECURSIVE clean_measurements_prepend(_, _)
clean_measurements_prepend(ms, t) ==
    IF ms = <<>>
    THEN <<>>
    ELSE LET r == _clean_single_measurement(Head(ms), t) IN
         IF r.type = "raise" \/ r = PyNone
         THEN clean_measurements_prepend(Tail(ms), t)
         ELSE clean_measurements_prepend(Tail(ms), t) \o <<r>>

\* lines 55-67: the loop over the batch; an exception from the call is caught
\* and the record skipped
RECURSIVE clean_measurements(_, _)
clean_measurements(ms, t) ==
    IF ms = <<>>
    THEN <<>>
    ELSE LET r == _clean_single_measurement(Head(ms), t) IN
         IF r.type = "raise" \/ r = PyNone
         THEN clean_measurements(Tail(ms), t)
         ELSE <<r>> \o clean_measurements(Tail(ms), t)

-----------------------------------------------------------------------------
(* Inputs of the cleaning specifications *)

\* the longest batch of SpecCleanBatch
MaxBatch == 3

\* the clock value the cleaning and conversion specifications start at
StartHour == 0

Cities == {"", "Austin"}
RawParameters == {"", "PM2.5", "pm25", "O3", "ozone", "NO2", "HCHO", "h2co", "co"}
RawValues ==
    {PyNone, PyText("abc"), PyNumeral(12)}
    \cup {PyFloat(x) : x \in {-1, 0, 12, 50, 51, 500, 501}}
RawUnits == {"", "µg/m³", "ug/m3", "mg/m³", "ppm", "ppb", "PPB", "mol/m²", "furlong"}
\* offsets from the clock, in hours: 366 days back, one hour past the window,
\* the two ends of the window, inside it, one hour ahead of it
DateOffsets ==
    {0 - timedelta_days(MaxAgeDays + 1), 0 - timedelta_days(MaxAgeDays) - 1,
     0 - timedelta_days(MaxAgeDays), 0, timedelta_days(MaxAheadDays),
     timedelta_days(MaxAheadDays) + 1}
RawDates ==
    {PyNone, PyText("yesterday"), PyInt(5)}
    \cup {PyIso(StartHour + d, z) : d \in DateOffsets, z \in {"", "Z"}}
    \cup {PyDatetime(StartHour + d, tz) : d \in DateOffsets, tz \in {"naive", "aware"}}

RawRecords ==
    [city : Cities, parameter : RawParameters, value : RawValues,
     unit : RawUnits, date_utc : RawDates, source : {"openaq"}]

Raw(city, parameter, value, unit, date_utc) ==
    [city |-> city, parameter |-> parameter, value |-> value, unit |-> unit,
     date_utc |-> date_utc, source |-> "openaq"]

\* the records batches are built from: one well-formed record and one record
\* for each way of failing or of passing unconverted
BatchRecords ==
    {Raw("Austin", "PM2.5", PyFloat(12), "µg/m³", PyIso(StartHour, "")),
     Raw("Austin", "ozone", PyNumeral(12), "ug/m3", PyDatetime(StartHour, "naive")),
     Raw("", "PM2.5", PyFloat(12), "µg/m³", PyIso(StartHour, "")),
     Raw("Austin", "O3", PyText("abc"), "µg/m³", PyIso(StartHour, "")),
     Raw("Austin", "pm25", PyNumeral(12), "µg/m³", PyIso(StartHour, "Z")),
     Raw("Austin", "NO2", PyFloat(12), "µg/m³",
         PyIso(StartHour - timedelta_days(MaxAgeDays + 1), "")),
     Raw("Austin", "NO2", PyFloat(501), "µg/m³", PyIso(StartHour, "")),
     Raw("Austin", "NO2", PyFloat(12), "ppb", PyIso(StartHour, "")),
     Raw("Austin", "no2", PyFloat(12), "ppb", PyIso(StartHour, ""))}

SeqsUpTo(S, n) == UNION {[1..k -> S] : k \in 0..n}

\* no conversion call is in progress
ConvIdle ==
    conv_in = <<>> /\ conv_out = <<>> /\ conv_again = <<>> /\ norm_out = <<>>

\* no outlier detection is in progress
OutIdle == out_call = <<>> /\ out_result = <<>>

\* no cleaning is in progress
CleanIdle == measurements = <<>> /\ cleaned = <<>> /\ clean_status = "idle"

\* numpy's global generator before any call of np.random.seed: seeded by the
\* operating system, no deviate drawn
np_random_unseeded == [seed |-> <<"", "os", 0>>, drawn |-> 0]

\* no call of the generator or of the forecaster has been made
CallsIdle ==
    /\ np_random = np_random_unseeded
    /\ minute = 0
    /\ gen_calls = <<>>
    /\ ml_call = <<>>
    /\ ml_result = <<>>
    /\ ingest_call = <<>>
    /\ ingest_result = <<>>

\* the service has just started on an empty database
ApiIdle ==
    /\ db = <<>>
    /\ prediction_cache = {}
    /\ model_files = {}
    /\ forecaster = PyNone
    /\ request = <<>>
    /\ response = <<>>
    /\ log = <<>>
    /\ CallsIdle

InitCleanRecord ==
    /\ now = StartHour
    /\ OutIdle
    /\ ApiIdle
    /\ measurements \in {<<r>> : r \in RawRecords}
    /\ cleaned = <<>>
    /\ clean_status = "idle"
    /\ ConvIdle

InitCleanBatch ==
    /\ now = StartHour
    /\ OutIdle
    /\ ApiIdle
    /\ measurements \in SeqsUpTo(BatchRecords, MaxBatch)
    /\ cleaned = <<>>
    /\ clean_status = "idle"
    /\ ConvIdle

\* DataProcessor.clean_measurements(measurements)
CleanMeasurements ==
    /\ clean_status = "idle"
    /\ cleaned' = clean_measurements(measurements, now)
    /\ clean_status' = "returned"
    /\ UNCHANGED <<now, measurements, convVars, outVars, apiVars>>

NextClean == CleanMeasurements

SpecCleanRecord == InitCleanRecord /\ [][NextClean]_vars
SpecCleanBatch == InitCleanBatch /\ [][NextClean]_vars

-----------------------------------------------------------------------------
(* The unit conversion on its own *)

ConvValues == {0, 1, 7, 50}
ConvUnits ==
    {"µg/m³", "ug/m3", "UG/M3", "mg/m³", "mg/m3", "ppm", "PPM", "ppb", " ppb ",
     "mol/m²", "mol/m2", "furlong"}
ConvParameters == {"PM2.5", "O3", "NO2", "HCHO", "ozone", "co"}

InitConvert ==
    /\ now = StartHour
    /\ OutIdle
    /\ ApiIdle
    /\ CleanIdle
    /\ conv_in \in {<<v, u, p>> : v \in ConvValues, u \in ConvUnits, p \in ConvParameters}
    /\ conv_out = <<>>
    /\ conv_again = <<>>
    /\ norm_out = <<>>

\* DataProcessor._convert_units(value, unit, parameter)
ConvertUnits ==
    /\ conv_in # <<>>
    /\ conv_out = <<>>
    /\ conv_out' = _convert_units(conv_in[1], conv_in[2], conv_in[3])
    /\ UNCHANGED <<now, cleanVars, conv_in, conv_again, norm_out, outVars,
                   apiVars>>

\* DataProcessor._convert_units applied to the (value, unit) it returned
ConvertAgain ==
    /\ conv_out # <<>>
    /\ conv_out[1] # PyNone
    /\ conv_again = <<>>
    /\ conv_again' = _convert_units(conv_out[1].n, conv_out[2], conv_in[3])
    /\ UNCHANGED <<now, cleanVars, conv_in, conv_out, norm_out, outVars,
                   apiVars>>

NextConvert == ConvertUnits \/ ConvertAgain

SpecConvert == InitConvert /\ [][NextConvert]_vars

-----------------------------------------------------------------------------
(* DataProcessor: outlier detection.  The arithmetic is exact: each         *)
(* comparison of the code is multiplied through by its denominators.  An    *)
(* index set of the code (0-based) is kept 1-based here, as positions of    *)
(* the sequence it indexes.                                                 *)

PyBool(b) == [type |-> "bool", n |-> IF b THEN 1 ELSE 0, s |-> ""]
\* the key is not in the dict
Absent == [type |-> "absent", n |-> 0, s |-> ""]

Abs(x) == IF x < 0 THEN 0 - x ELSE x

RECURSIVE Sum(_)
Sum(seq) == IF seq = <<>> THEN 0 ELSE Head(seq) + Sum(Tail(seq))

RECURSIVE Insert(_, _)
Insert(x, sorted) ==
    IF sorted = <<>>
    THEN <<x>>
    ELSE IF x <= Head(sorted)
         THEN <<x>> \o sorted
         ELSE <<Head(sorted)>> \o Insert(x, Tail(sorted))

RECURSIVE Sorted(_)
Sorted(seq) == IF seq = <<>> THEN <<>> ELSE Insert(Head(seq), Sorted(Tail(seq)))

\* 4 * np.percentile(values, q) for q in {25, 75}, linear interpolation:
\* the virtual index is q/100 * (n - 1) = quarters/4 with quarters below
Percentile4(values, q) ==
    LET a == Sorted(values)
        quarters == (q \div 25) * (Len(a) - 1)
        k == quarters \div 4
        r == quarters % 4
    IN IF r = 0 THEN 4 * a[k + 1]
       ELSE 4 * a[k + 1] + r * (a[k + 2] - a[k + 1])

\* 2 * np.median(values)
Median2(values) ==
    LET a == Sorted(values)
        n == Len(a)
    IN IF n % 2 = 1 THEN 2 * a[(n + 1) \div 2]
       ELSE a[n \div 2] + a[n \div 2 + 1]

_detect_outliers_iqr_inclusive(values) ==
    LET q1 == Percentile4(values, 25)
        q3 == Percentile4(values, 75)
        iqr == q3 - q1
        lower_bound8 == 2 * q1 - 3 * iqr
        upper_bound8 == 2 * q3 + 3 * iqr
    IN {i \in 1..Len(values) :
           8 * values[i] <= lower_bound8 \/ 8 * values[i] >= upper_bound8}

\* lines 269-282; q1, q3 and iqr are held times 4, the bounds times 8
_detect_outliers_iqr(values) ==
    LET q1 == Percentile4(values, 25)
        q3 == Percentile4(values, 75)
        iqr == q3 - q1
        lower_bound8 == 2 * q1 - 3 * iqr
        upper_bound8 == 2 * q3 + 3 * iqr
    IN {i \in 1..Len(values) :
           8 * values[i] < lower_bound8 \/ 8 * values[i] > upper_bound8}

\* lines 285-299 with threshold 3.0: with S the sum and n the length,
\* std = 0 iff every n*v = S, and |v - mean| / std > 3 iff
\* n * (n*v - S)^2 > 9 * sum of (n*v_i - S)^2
_detect_outliers_zscore(values) ==
    LET n == Len(values)
        S == Sum(values)
        dev2 == [i \in 1..n |-> (n * values[i] - S) * (n * values[i] - S)]
    IN IF Sum(dev2) = 0
       THEN {}
       ELSE {i \in 1..n : n * dev2[i] > 9 * Sum(dev2)}

\* lines 302-316 with threshold 3.5: the median is held times 2, each
\* |x - median| times 2 and mad times 4;
\* |0.6745 * (v - median) / mad| > 3.5 iff 6745 * 4|v - median| > 35000 * 4 mad
_detect_outliers_modified_zscore(values) ==
    LET median2 == Median2(values)
        dev2 == [i \in 1..Len(values) |-> Abs(2 * values[i] - median2)]
        mad4 == Median2(dev2)
    IN IF mad4 = 0
       THEN {}
       ELSE {i \in 1..Len(values) : 6745 * 2 * dev2[i] > 35000 * mad4}

SelectParameter(ms, parameter) == SelectSeq(ms, LAMBDA m : m.parameter = parameter)

\* lines 221-266
detect_outliers(ms, parameter, method) ==
    IF ms = <<>>
    THEN ms
    ELSE LET param_measurements == SelectParameter(ms, parameter) IN
         IF Len(param_measurements) < 3
         THEN ms
         ELSE LET values == [i \in 1..Len(param_measurements) |->
                                param_measurements[i].value]
                  outlier_indices ==
                      CASE method = "iqr" -> _detect_outliers_iqr(values)
                        [] method = "zscore" -> _detect_outliers_zscore(values)
                        [] method = "modified_zscore" ->
                               _detect_outliers_modified_zscore(values)
                        [] OTHER -> {}
              IN [i \in 1..Len(ms) |->
                     [ms[i] EXCEPT !.is_outlier = PyBool(i \in outlier_indices)]]

\* the longest batch handed to detect_outliers
MaxSeries == 4

OutlierRecords ==
    [parameter : {"PM2.5", "O3"}, value : {5, 6, 50}, is_outlier : {Absent}]
OutlierMethods == {"iqr", "zscore", "modified_zscore"}

InitOutliers ==
    /\ now = StartHour
    /\ CleanIdle
    /\ ConvIdle
    /\ ApiIdle
    /\ out_call \in {<<ms, p, method>> :
                        ms \in SeqsUpTo(OutlierRecords, MaxSeries),
                        p \in {"PM2.5", "O3"}, method \in OutlierMethods}
    /\ out_result = <<>>

\* DataProcessor.detect_outliers(measurements, parameter, method); the result
\* is wrapped in a 1-tuple so that an empty list returned differs from no call
DetectOutliers ==
    /\ out_call # <<>>
    /\ out_result = <<>>
    /\ out_result' = <<detect_outliers(out_call[1], out_call[2], out_call[3])>>
    /\ UNCHANGED <<now, cleanVars, convVars, out_call, apiVars>>

NextOutliers == DetectOutliers

SpecOutliers == InitOutliers /\ [][NextOutliers]_vars

-----------------------------------------------------------------------------
(* Properties of the cleaning *)

Kept(m) == \E i \in 1..Len(cleaned) : cleaned[i].original_data = m

RequiredFieldsPresent(m) ==
    /\ strip(m.city) # ""
    /\ strip(m.parameter) # ""
    /\ strip(m.unit) # ""
    /\ m.value.type \in {"float", "int"} \/ (m.value.type = "str" /\ m.value.s = "numeral")

InWindow(t) ==
    /\ now - timedelta_days(MaxAgeDays) <= t
    /\ t <= now + timedelta_days(MaxAheadDays)

\* a record that is valid whatever its date: canonical parameter name,
\* canonical unit, value inside the parameter's range
ValidApartFromDate(m) ==
    /\ RequiredFieldsPresent(m)
    /\ m.parameter \in {"PM2.5", "O3", "NO2", "HCHO"}
    /\ m.unit = "µg/m³"
    /\ 0 <= m.value.n
    /\ m.value.n <= (IF m.parameter = "HCHO" THEN 50 ELSE 500)

\* a date_utc in one of the accepted forms: an ISO-8601 string with or without
\* the Z suffix, or a datetime
AcceptedDateForm(d) ==
    \/ d.type = "str" /\ d.s \in {"iso", "isoZ"}
    \/ d.type = "datetime"

\* C1: every returned record whose parameter is PM2.5, O3 or NO2 has
\* 0 <= value <= 500, and every returned HCHO record has 0 <= value <= 50,
\* whichever spelling of the parameter the raw record used.
C1_RangeEnforced ==
    \A i \in 1..Len(cleaned) :
        /\ cleaned[i].parameter \in {"PM2.5", "O3", "NO2"}
              => (0 <= cleaned[i].value /\ cleaned[i].value <= 500)
        /\ cleaned[i].parameter = "HCHO"
              => (0 <= cleaned[i].value /\ cleaned[i].value <= 50)

\* C2: every returned record has unit exactly µg/m³; a record whose unit
\* cannot be converted is dropped, never emitted with its original unit.
C2_CanonicalUnit ==
    \A i \in 1..Len(cleaned) : cleaned[i].unit = "µg/m³"

\* a record of the shape of the end-to-end example apart from its date: the
\* required fields present, a mass-concentration unit that needs no factor,
\* and a value inside the range of the parameter the name stands for
ExampleShaped(m) ==
    /\ RequiredFieldsPresent(m)
    /\ strip(lower(m.unit)) \in {"µg/m³", "ug/m3"}
    /\ strip(lower(m.parameter)) \in
           {"pm2.5", "pm25", "o3", "ozone", "no2", "hcho", "h2co"}
    /\ 0 <= m.value.n
    /\ m.value.n <= (IF strip(lower(m.parameter)) \in {"hcho", "h2co"} THEN 50 ELSE 500)

\* C3: a raw record with non-empty city, parameter and unit, a float-coercible
\* value and a Z-suffixed ISO-8601 date_utc inside the window is retained, with
\* its parameter alias normalised, its value a float and unit µg/m³ (the shape
\* of the end-to-end example).
C3_ZSuffixRetained ==
    clean_status = "returned" =>
        \A j \in 1..Len(measurements) :
            LET m == measurements[j] IN
            (/\ ExampleShaped(m)
             /\ m.date_utc.type = "str"
             /\ m.date_utc.s = "isoZ"
             /\ InWindow(m.date_utc.n))
            => \E i \in 1..Len(cleaned) :
                   /\ cleaned[i].original_data = m
                   /\ cleaned[i].parameter \in {"PM2.5", "O3", "NO2", "HCHO"}
                   /\ cleaned[i].value = m.value.n
                   /\ cleaned[i].unit = "µg/m³"

\* C4: no returned record is dated before now - 365 days or after now + 1 day;
\* a record dated 366 days back is dropped; a record dated exactly on either
\* end of the window is kept when otherwise valid.
C4_DateWindow ==
    clean_status = "returned" =>
        /\ \A i \in 1..Len(cleaned) : InWindow(cleaned[i].date_utc.n)
        /\ \A j \in 1..Len(measurements) :
               LET m == measurements[j] IN
               /\ (AcceptedDateForm(m.date_utc)
                   /\ m.date_utc.n = now - timedelta_days(MaxAgeDays + 1))
                  => ~Kept(m)
               /\ (ValidApartFromDate(m)
                   /\ AcceptedDateForm(m.date_utc)
                   /\ m.date_utc.n \in {now - timedelta_days(MaxAgeDays),
                                        now + timedelta_days(MaxAheadDays)})
                  => Kept(m)

StrictlyIncreasing(f) ==
    \A i, k \in DOMAIN f : i < k => f[i] < f[k]

\* C5: the output is a subsequence of the input batch: it is no longer than
\* the batch, each output record is the cleaned form of a distinct input
\* record (its original_data), and the survivors keep their relative order.
C5_Subsequence ==
    clean_status = "returned" =>
        /\ Len(cleaned) <= Len(measurements)
        /\ \E f \in [1..Len(cleaned) -> 1..Len(measurements)] :
               /\ StrictlyIncreasing(f)
               /\ \A i \in 1..Len(cleaned) :
                      /\ cleaned[i].original_data = measurements[f[i]]
                      /\ cleaned[i] = _clean_single_measurement(measurements[f[i]], now)

C5_Witness ==
    /\ clean_status = "returned"
    /\ Len(measurements) = 3
    /\ Len(cleaned) = 2
    /\ cleaned[1].original_data = measurements[1]
    /\ cleaned[2].original_data = measurements[3]
    /\ measurements[1] # measurements[3]

\* the batch without its j-th record
Without(ms, j) == [i \in 1..(Len(ms) - 1) |-> IF i < j THEN ms[i] ELSE ms[i + 1]]

\* the record is dropped: a step of the cleaning rejects it or raises
Fails(m) ==
    \/ clean_single_body(m, now) = PyNone
    \/ clean_single_body(m, now).type = "raise"

\* C6: clean_measurements returns for every batch; a record that fails any
\* step (or in whose cleaning an exception is raised) is dropped, and the
\* other records are cleaned exactly as if the failing record were absent.
C6_FailuresAbsorbed ==
    /\ clean_status \in {"idle", "returned"}
    /\ clean_status = "returned" =>
           \A j \in 1..Len(measurements) :
               Fails(measurements[j]) =>
                   /\ ~Kept(measurements[j])
                   /\ cleaned = clean_measurements(Without(measurements, j), now)

C6_Witness ==
    /\ clean_status = "returned"
    /\ Len(measurements) = 3
    /\ clean_single_body(measurements[1], now).type = "raise"
    /\ clean_single_body(measurements[2], now) = PyNone
    /\ Len(cleaned) = 1
    /\ cleaned[1].original_data = measurements[3]

-----------------------------------------------------------------------------
(* Properties of the unit conversion *)

ClaimedWeight(p) == CASE p = "O3" -> 48 [] p = "NO2" -> 46 [] p = "HCHO" -> 30

\* C7: after case-folding and trimming the unit, _convert_units returns
\* (value, µg/m³) for µg/m³ and ug/m3, (value*1000, µg/m³) for mg/m³ and
\* mg/m3, (value*1000*MW, µg/m³) for ppm and (value*MW, µg/m³) for ppb, with
\* MW = 48 for O3, 46 for NO2 and 30 for HCHO; (50, ppb, O3) gives 2400.
C7_ConversionTable ==
    conv_out # <<>> =>
        LET v == conv_in[1]
            u == strip(lower(conv_in[2]))
            p == conv_in[3]
        IN
        /\ u \in {"µg/m³", "ug/m3"} => conv_out = <<PyFloat(v), "µg/m³">>
        /\ u \in {"mg/m³", "mg/m3"} => conv_out = <<PyFloat(v * 1000), "µg/m³">>
        /\ (u = "ppm" /\ p \in {"O3", "NO2", "HCHO"})
              => conv_out = <<PyFloat(v * 1000 * ClaimedWeight(p)), "µg/m³">>
        /\ (u = "ppb" /\ p \in {"O3", "NO2", "HCHO"})
              => conv_out = <<PyFloat(v * ClaimedWeight(p)), "µg/m³">>
        /\ conv_in = <<50, "ppb", "O3">> => conv_out = <<PyFloat(2400), "µg/m³">>

C7_Witness ==
    /\ conv_in = <<50, "ppb", "O3">>
    /\ conv_out = <<PyFloat(2400), "µg/m³">>

\* C8: for every non-negative v and every parameter p,
\* _convert_units(v, µg/m³, p) = (v, µg/m³); so converting the (value, unit)
\* returned for a convertible input returns that same (value, unit).
C8_Idempotent ==
    /\ (conv_out # <<>> /\ conv_in[2] = "µg/m³" /\ conv_in[1] >= 0)
          => conv_out = <<PyFloat(conv_in[1]), "µg/m³">>
    /\ (conv_again # <<>> /\ conv_out[2] = "µg/m³")
          => conv_again = conv_out

C8_Witness ==
    /\ conv_in = <<50, "ppb", "O3">>
    /\ conv_out = <<PyFloat(2400), "µg/m³">>
    /\ conv_again = <<PyFloat(2400), "µg/m³">>

-----------------------------------------------------------------------------
(* Properties of the outlier detection *)

\* the value series of the analysed parameter
AnalysedValues ==
    LET pm == SelectParameter(out_call[1], out_call[2]) IN
    [i \in 1..Len(pm) |-> pm[i].value]

ConstantSeries(values) ==
    /\ Len(values) >= 3
    /\ \A i \in 1..Len(values) : values[i] = values[1]

\* C9: for a series of at least 3 equal values, no record is flagged under any
\* of the three methods (iqr, zscore, modified_zscore).
C9_ConstantSeriesNoOutliers ==
    (out_result # <<>> /\ ConstantSeries(AnalysedValues)) =>
        /\ Len(out_result[1]) = Len(out_call[1])
        /\ \A i \in 1..Len(out_result[1]) :
               out_result[1][i].is_outlier = PyBool(FALSE)

C9_Witness ==
    /\ out_result # <<>>
    /\ out_call[3] = "iqr"
    /\ ConstantSeries(AnalysedValues)
    /\ Len(out_call[1]) > Len(AnalysedValues)
    /\ \A i \in 1..Len(out_result[1]) : out_result[1][i].is_outlier = PyBool(FALSE)

-----------------------------------------------------------------------------
(* The measurements table and the AirNow ingestion (main.py) *)

\* datetime.hour of the clock reading t (hour 0 is a midnight)
hour(t) == t % 24

\* a datetime where the minutes count: m minutes past the hour t
instant(t, m) == [hour |-> t, minute |-> m]

\* a row of the measurements table (models.Measurement)
Measurement(city, parameter, value, unit, date_utc, source) ==
    [city |-> city, parameter |-> parameter, value |-> value, unit |-> unit,
     date_utc |-> date_utc, source |-> source]

\* database.SessionLocal: a query flushes the rows the session has added, so
\* the duplicate check sees the rows added earlier in the same call
SessionLocal_autoflush == TRUE

param_map ==
    [p \in {"OZONE", "PM25", "NO2"} |->
        CASE p = "OZONE" -> <<"O3", "ppb">>
          [] p = "PM25" -> <<"PM2.5", "µg/m³">>
          [] p = "NO2" -> <<"NO2", "ppb">>]

\* lines 125-130: the datetime of a reading's UTC field. The field is the
\* text of an hour (PyIso), some other text, or missing.
airnow_timestamp(ts) ==
    IF ts.type # "str" THEN Raise("TypeError") ELSE fromisoformat(ts)

\* a variant of the duplicate check that finds nothing
exists_never(rows, city, parameter, dt) == FALSE

\* lines 133-140: the duplicate check
exists(rows, city, parameter, dt) ==
    \E i \in 1..Len(rows) :
        /\ rows[i].city = city
        /\ rows[i].parameter = parameter
        /\ rows[i].date_utc = dt
        /\ rows[i].source = "airnow"

\* lines 111-153: the loop over the readings; rows are the committed rows,
\* added the rows this call has added so far
RECURSIVE ingest_records(_, _, _, _)
ingest_records(data, city, rows, added) ==
    IF data = <<>>
    THEN added
    ELSE LET rec == Head(data)
             value == float(rec.AQI)
             dt == airnow_timestamp(rec.UTC)
             visible == IF SessionLocal_autoflush THEN rows \o added ELSE rows
             skip ==
                 \/ rec.Parameter \notin DOMAIN param_map
                 \/ value.type = "raise"
                 \/ value.n = 0
                 \/ dt.type = "raise"
                 \/ exists(visible, city, param_map[rec.Parameter][1], dt.n)
         IN IF skip
            THEN ingest_records(Tail(data), city, rows, added)
            ELSE ingest_records(Tail(data), city, rows,
                     Append(added,
                         Measurement(city, param_map[rec.Parameter][1], value.n,
                                     param_map[rec.Parameter][2], dt.n, "airnow")))

\* ingest_airnow_for_city: the table after the call. airnow is what the
\* environment answers: no API key configured, a failed HTTP exchange, a
\* WebServiceError document, or a list of readings.
ingest_airnow_for_city(rows, city, airnow) ==
    CASE airnow.kind = "no_api_key" -> rows
      [] airnow.kind = "http_error" -> rows
      [] airnow.kind = "WebServiceError" -> rows
      [] airnow.kind = "data" -> rows \o ingest_records(airnow.data, city, rows, <<>>)

-----------------------------------------------------------------------------
(* /predict: the store query and the trend tier (main.py) *)

\* a variant of the validation that lets the parameter CO through
valid_parameters_with_CO == {"PM2.5", "O3", "NO2", "CO"}

valid_parameters == {"PM2.5", "O3", "NO2"}

\* line 417: the number of recent measurements from which the trend tier runs
TrendMinimum == 12
\* line 412: the most recent rows the query returns at most
QueryLimit == 24

\* numbers with two decimals are kept as whole hundredths
Min(a, b) == IF a <= b THEN a ELSE b
Max(a, b) == IF a >= b THEN a ELSE b

\* round(a / b * 100) for b > 0, ties to the even neighbour
round2(a, b) ==
    LET q == 100 * (a \div b) + (100 * (a % b)) \div b
        r == (100 * (a % b)) % b
    IN IF 2 * r < b THEN q
       ELSE IF 2 * r > b THEN q + 1
       ELSE IF q % 2 = 0 THEN q ELSE q + 1

\* the largest r in lo..hi with r * r <= x
RECURSIVE isqrt_between(_, _, _)
isqrt_between(x, lo, hi) ==
    IF lo >= hi
    THEN lo
    ELSE LET mid == (lo + hi + 1) \div 2
         IN IF mid * mid <= x
            THEN isqrt_between(x, mid, hi)
            ELSE isqrt_between(x, lo, mid - 1)

\* the whole part of the square root of x
isqrt(x) == isqrt_between(x, 0, Min(x, 46340))

\* rows in time order, oldest first; rows of equal time keep their order
RECURSIVE insert_by_date(_, _)
insert_by_date(m, sorted) ==
    IF sorted = <<>>
    THEN <<m>>
    ELSE IF m.date_utc < Head(sorted).date_utc
         THEN <<m>> \o sorted
         ELSE <<Head(sorted)>> \o insert_by_date(m, Tail(sorted))

RECURSIVE sorted_by_date(_)
sorted_by_date(ms) ==
    IF ms = <<>>
    THEN <<>>
    ELSE insert_by_date(ms[Len(ms)], sorted_by_date(SubSeq(ms, 1, Len(ms) - 1)))

\* lines 409-412: the rows of (city, parameter), newest first, at most 24
recent_measurements(rows, city, parameter) ==
    LET match(m) == m.city = city /\ m.parameter = parameter
        asc == sorted_by_date(SelectSeq(rows, match))
        n == Min(Len(asc), QueryLimit)
    IN [i \in 1..n |-> asc[Len(asc) + 1 - i]]

\* 1.1 by day, 0.9 by night, 1.0 between, in tenths (lines 451-456)
diurnal_factor(hour_of_day) ==
    IF 6 <= hour_of_day /\ hour_of_day <= 18 THEN 11
    ELSE IF 22 <= hour_of_day \/ hour_of_day <= 5 THEN 9
    ELSE 10

\* a variant of the trend loop that counts the steps from the point after
\* the first forecast point
trend_steps_from_next(n, i) == n + i + 1

\* line 448: the number of steps the slope is applied for in pass i of the
\* loop, i counted from 0
trend_steps(n, i) == n + i

\* lines 418-492: the response of the trend tier. clock[i] is the clock
\* reading of the i-th pass of the loop, clock[hours_ahead + 1] the reading
\* of the response's timestamp.
\* With S the sum of the n values, A = sum (2i-n+1)(n*v[i]-S) and
\* B = sum (2i-n+1)^2 over i = 0..n-1, slope = 2A/(nB), and the value of
\* point i is (S*B + 2A(n+i)) * factor / (10*n*B).
trend_forecast(recent, req, clock, m) ==
    LET sorted_measurements == sorted_by_date(recent)
        values == [i \in 1..Len(recent) |-> sorted_measurements[i].value]
        n == Len(values)
        S == Sum(values)
        max_value == CHOOSE v \in {values[i] : i \in 1..n} :
                         \A j \in 1..n : values[j] <= v
        A == Sum([i \in 1..n |-> (2 * (i - 1) - n + 1) * (n * values[i] - S)])
        B == Sum([i \in 1..n |-> (2 * (i - 1) - n + 1) * (2 * (i - 1) - n + 1)])
        Q == Sum([i \in 1..n |-> (n * values[i] - S) * (n * values[i] - S)])
        \* 1.96 * std_dev, to the hundredth below
        confidence_margin ==
            (196 * isqrt(10000 * (Q \div (n * n * n))
                           + (10000 * (Q % (n * n * n))) \div (n * n * n)))
                \div 100
        num(i) == IF B = 0
                  THEN S * diurnal_factor(hour(clock[i + 1] + i + 1))
                  ELSE (S * B + 2 * A * trend_steps(n, i))
                           * diurnal_factor(hour(clock[i + 1] + i + 1))
        den == IF B = 0 THEN 10 * n ELSE 10 * n * B
        \* max(0, min(predicted_value, max_value * 1.5)), in hundredths
        predicted_value(i) ==
            IF num(i) < 0 THEN 0
            ELSE IF 2 * num(i) > 3 * max_value * den THEN Max(0, 150 * max_value)
            ELSE round2(num(i), den)
        forecast_time(i) == clock[i + 1] + i + 1
    IN [status |-> 200,
        city |-> req.city,
        parameter |-> req.parameter,
        hours_ahead |-> req.hours_ahead,
        predictions |->
            [k \in 1..req.hours_ahead |->
                [timestamp |-> instant(forecast_time(k - 1), m),
                 value |-> predicted_value(k - 1)]],
        confidence_intervals |->
            [k \in 1..req.hours_ahead |->
                [timestamp |-> instant(forecast_time(k - 1), m),
                 lower |-> Max(0, predicted_value(k - 1) - confidence_margin),
                 upper |-> predicted_value(k - 1) + confidence_margin]],
        model_metadata |->
            [model_type |-> "Trend-Based Forecast",
             average_value |-> round2(S, n),
             trend |-> IF B # 0 /\ 20 * A > n * B THEN "increasing"
                       ELSE IF B # 0 /\ 20 * A < 0 - n * B THEN "decreasing"
                       ELSE "stable",
             data_points |-> Len(recent)],
        timestamp |-> instant(clock[req.hours_ahead + 1], m)]

-----------------------------------------------------------------------------
(* /predict: the fallback tier and the prediction cache (main.py) *)

base_values(parameter) ==
    CASE parameter = "PM2.5" -> [mean |-> 15, std |-> 8, min |-> 0, max |-> 50]
      [] parameter = "O3" -> [mean |-> 45, std |-> 15, min |-> 0, max |-> 100]
      [] parameter = "NO2" -> [mean |-> 25, std |-> 10, min |-> 0, max |-> 80]
      [] OTHER -> [mean |-> 20, std |-> 10, min |-> 0, max |-> 50]

\* lines 172-173: the seed is a digest of city, parameter and hour; it stands
\* here as the triple it is the digest of
md5_seed(city, parameter, current_hour) == <<city, parameter, current_hour>>

\* the i-th standard normal deviate, in tenths, of the generator seeded with
\* seed (np.random.seed, np.random.normal): a fixed function of seed and i
standard_normal(seed, i) ==
    LET deviates == <<-20, -5, 0, 5, 20>>
        p == CASE seed[2] = "PM2.5" -> 1 [] seed[2] = "O3" -> 2 [] OTHER -> 3
    IN deviates[((Len(seed[1]) + p + 2 * seed[3] + 3 * i) % 5) + 1]

\* 1.2 by day, 0.7 by night, 1.0 between, in tenths (lines 199-204)
time_factor(hour_of_day) ==
    IF 6 <= hour_of_day /\ hour_of_day <= 18 THEN 12
    ELSE IF 22 <= hour_of_day \/ hour_of_day <= 5 THEN 7
    ELSE 10

\* a variant of np.random.seed that leaves the generator as it is
np_random_seed_keep(rng, seed) == rng

\* np.random.seed(seed): the global generator rng after the call
np_random_seed(rng, seed) == [seed |-> seed, drawn |-> 0]

\* the i-th deviate, counted from 0, that np.random.normal draws from rng
np_random_normal(rng, i) == standard_normal(rng.seed, rng.drawn + i)

\* the global generator after n more draws
np_random_drawn(rng, n) == [rng EXCEPT !.drawn = @ + n]

\* generate_deterministic_predictions, called when the clock reads t and the
\* global generator is rng; the values are in hundredths. np_random is the
\* global generator when the call returns.
generate_deterministic_predictions(city, parameter, hours_ahead, t, rng) ==
    LET current_hour == hour(t)
        seed == md5_seed(city, parameter, current_hour)
        seeded == np_random_seed(rng, seed)
        base_config == base_values(parameter)
        \* the prediction of pass i of the loop, in tenths
        prediction(i) ==
            Max(base_config.min * 10,
                Min(base_config.max * 10,
                    base_config.mean * time_factor((current_hour + i) % 24)
                        + base_config.std * np_random_normal(seeded, i)))
    IN [predictions |->
            [k \in 1..hours_ahead |-> 10 * prediction(k - 1)],
        confidence_intervals |->
            [k \in 1..hours_ahead |->
                <<Max(base_config.min * 100, 7 * prediction(k - 1)),
                  Min(base_config.max * 100, 13 * prediction(k - 1))>>],
        seed |-> seed,
        method |-> "deterministic_hash",
        np_random |-> np_random_drawn(seeded, hours_ahead)]

\* lines 233-234, 249-250
cache_key(city, parameter, hours_ahead, current_hour) ==
    <<city, parameter, hours_ahead, current_hour>>

\* get_cached_prediction: the clock reads t_key when the key is built and
\* t_check when the entry's hour is compared
get_cached_prediction(cache, city, parameter, hours_ahead, t_key, t_check) ==
    LET key == cache_key(city, parameter, hours_ahead, hour(t_key))
        hits == {e \in cache : e.key = key /\ hour(t_check) = e.cached_hour}
    IN IF hits = {} THEN PyNone ELSE (CHOOSE e \in hits : TRUE).prediction

\* cache_prediction: the cache after the write; the clock reads t_key when the
\* key is built and t_at when the entry is stamped
cache_prediction(cache, city, parameter, hours_ahead, prediction_data, t_key, t_at) ==
    LET key == cache_key(city, parameter, hours_ahead, hour(t_key))
    IN {e \in cache : e.key # key}
           \cup {[key |-> key, prediction |-> prediction_data,
                  cached_hour |-> hour(t_key), cached_at |-> t_at]}

\* lines 516-551: the response of the fallback tier. clock[0] is the reading
\* inside the generator, clock[i] the reading of the i-th pass of the
\* formatting loop, clock[hours_ahead + 1] and clock[hours_ahead + 2] the
\* readings of last_trained and of the response's timestamp.
fallback_forecast(req, clock, m, rng) ==
    LET prediction_result ==
            generate_deterministic_predictions(req.city, req.parameter,
                                               req.hours_ahead, clock[0], rng)
    IN [status |-> 200,
        city |-> req.city,
        parameter |-> req.parameter,
        hours_ahead |-> req.hours_ahead,
        predictions |->
            [k \in 1..req.hours_ahead |->
                [timestamp |-> instant(clock[k] + k, m),
                 value |-> prediction_result.predictions[k],
                 unit |-> IF req.parameter = "PM2.5" THEN "μg/m³" ELSE "ppb"]],
        confidence_intervals |->
            [k \in 1..req.hours_ahead |->
                [timestamp |-> instant(clock[k] + k, m),
                 lower |-> prediction_result.confidence_intervals[k][1],
                 upper |-> prediction_result.confidence_intervals[k][2]]],
        model_metadata |->
            [model_type |-> "Deterministic Sample Predictions",
             last_trained |-> instant(clock[req.hours_ahead + 1], m),
             prediction_method |-> prediction_result.method,
             seed |-> prediction_result.seed],
        timestamp |-> instant(clock[req.hours_ahead + 2], m)]

-----------------------------------------------------------------------------
(* /predict: the handler (main.py, predict_air_quality) *)

\* AirQualityForecaster.__init__ (ml_model.py)
AirQualityForecaster == [type |-> "AirQualityForecaster", is_trained |-> FALSE,
                         model |-> <<>>, feature_columns |-> <<>>]

\* the columns prepare_features adds (ml_model.py 44-60): what train_model
\* and load_model put into feature_columns
feature_columns_of_df ==
    <<"hour", "day_of_week", "day_of_year", "month",
      "value_lag_1h", "value_lag_2h", "value_lag_3h", "value_lag_6h",
      "value_lag_12h", "value_lag_24h",
      "value_rolling_3h", "value_rolling_6h", "value_rolling_12h",
      "value_rolling_24h", "value_diff_1h", "value_diff_24h">>

\* get_forecaster: the instance, built on first use
get_forecaster(fc) == IF fc = PyNone THEN AirQualityForecaster ELSE fc

\* the payload of an HTTPException
HTTPException(status_code) == [status |-> status_code]

\* lines 559-606 with AirQualityForecaster.predict (ml_model.py 174-265):
\* the response of the model tier and the forecaster after it. The model is
\* loaded from its file when the forecaster holds none; the regressor's
\* output stands as the latest stored value, its spread over one row is 0.
model_forecast(rows, files, fc, req, clock, m) ==
    LET self == get_forecaster(fc)
        loaded == IF ~self.is_trained /\ <<req.city, req.parameter>> \in files
                  THEN [self EXCEPT !.is_trained = TRUE,
                                    !.model = <<req.city, req.parameter>>,
                                    !.feature_columns = feature_columns_of_df]
                  ELSE self
        match(row) == /\ row.city = req.city
                      /\ row.parameter = req.parameter
                      /\ row.date_utc >= clock[0] - timedelta_days(7)
        recent_data == sorted_by_date(SelectSeq(rows, match))
    IN IF ~loaded.is_trained \/ Len(recent_data) < 24
       THEN [response |-> HTTPException(500), forecaster |-> loaded]
       ELSE [response |->
                [status |-> 200,
                 city |-> req.city,
                 parameter |-> req.parameter,
                 hours_ahead |-> req.hours_ahead,
                 predictions |->
                     [k \in 1..req.hours_ahead |->
                         [timestamp |-> instant(clock[k] + k, m),
                          value |-> 100 * recent_data[Len(recent_data)].value]],
                 confidence_intervals |->
                     [k \in 1..req.hours_ahead |->
                         [timestamp |-> instant(clock[k] + k, m),
                          lower |-> Max(0, 100 * recent_data[Len(recent_data)].value),
                          upper |-> 100 * recent_data[Len(recent_data)].value]],
                 model_metadata |->
                     [model_type |-> "RandomForestRegressor",
                      training_data_days |-> 90],
                 timestamp |-> instant(clock[req.hours_ahead + 1], m)],
             forecaster |-> loaded]

\* what the handler did for a request: the number of calls of
\* ingest_airnow_for_city, the row counts its store queries found (line 414),
\* and whether it read the cache, ran the generator, wrote the cache, and
\* called the forecaster
Did(ingests, found, cache_read, generated, cache_written, forecaster_called) ==
    [ingests |-> ingests, found |-> found, cache_read |-> cache_read,
     generated |-> generated, cache_written |-> cache_written,
     forecaster_called |-> forecaster_called]

\* the clock readings of one request, in the order the handler takes them:
\* 1 in the ingestion, 2 and 3 in get_cached_prediction, 4 in the generator,
\* 4+i in pass i of a formatting loop, then last_trained, the response's
\* timestamp, and the two of cache_prediction
LastReading(req) == 8 + req.hours_ahead

\* a variant of the handler that sends a short history to the model tier
select_tier_model_when_short(found, cached_prediction) ==
    IF found >= TrendMinimum THEN "trend" ELSE "model"

\* a variant that never asks the cache
select_tier_no_cache(found, cached_prediction) ==
    IF found >= TrendMinimum THEN "trend" ELSE "fallback"

\* a variant that looks into the cache before it counts the measurements
select_tier_cache_first(found, cached_prediction) ==
    IF cached_prediction # PyNone THEN "cache"
    ELSE IF found >= TrendMinimum THEN "trend"
    ELSE "fallback"

\* lines 417, 494, 506-510, 559: the part of the handler that answers a
\* request for which the query of lines 409-412 found this many rows;
\* cached_prediction is what get_cached_prediction returns if it is asked
select_tier(found, cached_prediction) ==
    IF found >= TrendMinimum THEN "trend"
    ELSE IF found < TrendMinimum
    THEN IF cached_prediction # PyNone THEN "cache" ELSE "fallback"
    ELSE "model"

\* predict_air_quality for a request that passed PredictRequest's validation.
\* utcnow[k] is the hour of the k-th clock reading, m the minutes past the
\* hour during the request, rng the global random generator, airnow the
\* environment's answer to the
\* ingestion if one is attempted.
predict_air_quality(rows, cache, files, fc, rng, req, airnow, utcnow, m) ==
    LET H == req.hours_ahead
        rows1 == IF req.use_real_data
                 THEN ingest_airnow_for_city(rows, req.city, airnow)
                 ELSE rows
        recent1 == recent_measurements(rows1, req.city, req.parameter)
        \* lines 494-503
        rows2 == IF req.use_real_data
                 THEN rows1
                 ELSE ingest_airnow_for_city(rows1, req.city, airnow)
        recent2 == recent_measurements(rows2, req.city, req.parameter)
        found == IF req.use_real_data
                 THEN <<Len(recent1)>>
                 ELSE <<Len(recent1), Len(recent2)>>
        cached_prediction ==
            get_cached_prediction(cache, req.city, req.parameter, H,
                                  utcnow[2], utcnow[3])
        response_data ==
            fallback_forecast(req, [i \in 0..(H + 2) |-> utcnow[4 + i]], m, rng)
        \* the global generator after the call of line 516
        rng_after ==
            generate_deterministic_predictions(req.city, req.parameter, H,
                                               utcnow[4], rng).np_random
        loop_clock == [i \in 0..(H + 1) |->
                          IF i <= H THEN utcnow[4 + i] ELSE utcnow[6 + H]]
        model == model_forecast(rows1, files, fc, req, loop_clock, m)
        tier == select_tier(Len(recent1), cached_prediction)
    IN IF req.parameter \notin valid_parameters
       THEN [db |-> rows, prediction_cache |-> cache, forecaster |-> fc,
             np_random |-> rng,
             response |-> HTTPException(400),
             log |-> Did(0, <<>>, FALSE, FALSE, FALSE, FALSE)]
       ELSE CASE tier = "trend" ->
                [db |-> rows1, prediction_cache |-> cache, forecaster |-> fc,
                 np_random |-> rng,
                 response |-> trend_forecast(recent1, req, loop_clock, m),
                 log |-> Did(IF req.use_real_data THEN 1 ELSE 0, <<Len(recent1)>>,
                             FALSE, FALSE, FALSE, FALSE)]
              [] tier = "cache" ->
                [db |-> rows2, prediction_cache |-> cache, forecaster |-> fc,
                 np_random |-> rng,
                 response |-> cached_prediction,
                 log |-> Did(1, found, TRUE, FALSE, FALSE, FALSE)]
              [] tier = "fallback" ->
                [db |-> rows2,
                 prediction_cache |->
                     cache_prediction(cache, req.city, req.parameter, H,
                                      response_data, utcnow[7 + H],
                                      instant(utcnow[8 + H], m)),
                 forecaster |-> fc,
                 np_random |-> rng_after,
                 response |-> response_data,
                 log |-> Did(1, found, TRUE, TRUE, TRUE, FALSE)]
              [] tier = "model" ->
                [db |-> rows1, prediction_cache |-> cache,
                 forecaster |-> model.forecaster,
                 np_random |-> rng,
                 response |-> model.response,
                 log |-> Did(IF req.use_real_data THEN 1 ELSE 0, <<Len(recent1)>>,
                             FALSE, FALSE, FALSE, TRUE)]

-----------------------------------------------------------------------------
(* The service: requests to /predict while the clock advances *)

\* the hours the clock may advance
MaxTicks == 2

\* the hour at which the service starts
ApiStartHour == StartHour + 5

ApiCities == {"Austin"}
ApiParameters == {"PM2.5", "CO"}
ApiHoursAhead == {0, 2, 169}

Requests ==
    [city : ApiCities, parameter : ApiParameters, hours_ahead : ApiHoursAhead,
     use_real_data : BOOLEAN]

\* the value AirNow reports for parameter p at hour t
AirNowAQI(p, t) == 30 + t

Reading(p, aqi, ts) == [Parameter |-> p, AQI |-> aqi, UTC |-> ts]

\* the k hourly readings of parameter p up to hour t
Hourly(p, k, t) ==
    [j \in 1..k |->
        Reading(p, PyInt(AirNowAQI(p, t - k + j)), PyIso(t - k + j, ""))]

\* a reading given twice, a parameter the service does not map, a reading
\* with AQI 0, one with the AQI -1 of a value that is not available, one
\* without a timestamp, one without an AQI
Irregular(t) ==
    <<Reading("PM25", PyInt(AirNowAQI("PM25", t)), PyIso(t, "")),
      Reading("PM25", PyInt(AirNowAQI("PM25", t)), PyIso(t, "")),
      Reading("CO", PyInt(3), PyIso(t, "")),
      Reading("PM25", PyInt(0), PyIso(t - 1, "")),
      Reading("PM25", PyInt(-1), PyIso(t - 2, "")),
      Reading("OZONE", PyInt(40), PyNone),
      Reading("OZONE", PyNone, PyIso(t, ""))>>

\* what the AirNow exchange can come to when the clock reads t
AirNowAnswers(t) ==
    {[kind |-> k, data |-> <<>>] : k \in {"no_api_key", "http_error", "WebServiceError"}}
        \cup {[kind |-> "data", data |-> d] :
                 d \in {Hourly("PM25", 1, t), Hourly("PM25", TrendMinimum, t),
                        Irregular(t)}}

\* PredictRequest: hours_ahead ge=1, le=168; city of 1 to 100 characters
PredictRequest_valid(req) ==
    /\ req.hours_ahead >= 1
    /\ req.hours_ahead <= 168
    /\ Len(req.city) >= 1
    /\ Len(req.city) <= 100

Init ==
    /\ now = ApiStartHour
    /\ CleanIdle
    /\ ConvIdle
    /\ OutIdle
    /\ db = <<>>
    /\ prediction_cache = {}
    /\ model_files \in SUBSET {<<"Austin", "PM2.5">>}
    /\ forecaster = PyNone
    /\ request = <<>>
    /\ response = <<>>
    /\ log = <<>>
    /\ CallsIdle

\* an hour passes while no request is being served
Tick ==
    /\ now < ApiStartHour + MaxTicks
    /\ now' = now + 1
    /\ UNCHANGED <<cleanVars, convVars, outVars, apiVars>>

\* a request that PredictRequest rejects: the handler does not run
PredictRejected ==
    \E req \in Requests :
        /\ ~PredictRequest_valid(req)
        /\ request' = req
        /\ response' = HTTPException(422)
        /\ log' = Did(0, <<>>, FALSE, FALSE, FALSE, FALSE)
        /\ UNCHANGED <<now, cleanVars, convVars, outVars, db, prediction_cache,
                       model_files, forecaster, np_random, minute, gen_calls,
                       ml_call, ml_result,
                   ingest_call, ingest_result>>

\* the handler serves req; the clock passes into the next hour just before
\* the handler's tick_at-th reading of it (0: it stays within the hour)
Serve(req, tick_at) ==
    LET utcnow == [k \in 1..LastReading(req) |->
                      IF tick_at # 0 /\ tick_at <= k THEN now + 1 ELSE now]
    IN \E airnow \in AirNowAnswers(utcnow[1]) :
         \E out \in {predict_air_quality(db, prediction_cache, model_files,
                                         forecaster, np_random, req, airnow,
                                         utcnow, minute)} :
            /\ request' = req
            /\ db' = out.db
            /\ prediction_cache' = out.prediction_cache
            /\ forecaster' = out.forecaster
            /\ response' = out.response
            /\ log' = out.log
            /\ np_random' = out.np_random
            /\ now' = utcnow[LastReading(req)]
            /\ UNCHANGED <<cleanVars, convVars, outVars, model_files, minute,
                           gen_calls, ml_call, ml_result,
                   ingest_call, ingest_result>>

\* a request served within one clock hour
Predict ==
    \E req \in Requests :
        /\ PredictRequest_valid(req)
        /\ Serve(req, 0)

Next == Tick \/ PredictRejected \/ Predict

Spec == Init /\ [][Next]_vars

-----------------------------------------------------------------------------
(* Properties of the tier selection of /predict *)

\* the last request passed validation and was served by the handler
ServedValid ==
    /\ request # <<>>
    /\ PredictRequest_valid(request)
    /\ request.parameter \in valid_parameters

\* the rows the tier-selecting query (lines 409-412) returned for it
FoundAtSelection == log.found[1]

\* the cache holds a payload that get_cached_prediction would return for the
\* last request at the present hour
FallbackCachedForRequest ==
    get_cached_prediction(prediction_cache, request.city, request.parameter,
                          request.hours_ahead, now, now) # PyNone

\* C10: a valid /predict request for which the store query returns 12 or more
\* measurements of (city, parameter) is answered by the trend tier
\* (model_type 'Trend-Based Forecast'), whether or not a model file exists
\* for the pair and whether or not a fallback payload is cached for the same
\* (city, parameter, hours_ahead, hour).
C10_TrendTierFirst ==
    (ServedValid /\ FoundAtSelection >= 12) =>
        /\ response.status = 200
        /\ response.model_metadata.model_type = "Trend-Based Forecast"

\* the trend tier answers while a model file exists for the pair and a
\* fallback payload of the same hour is in the cache
C10_Witness ==
    /\ ServedValid
    /\ FoundAtSelection >= 12
    /\ <<request.city, request.parameter>> \in model_files
    /\ FallbackCachedForRequest
    /\ response.status = 200
    /\ response.model_metadata.model_type = "Trend-Based Forecast"


\* a model file exists for the pair of the last request
ModelAvailableForRequest == <<request.city, request.parameter>> \in model_files

\* C11: a valid /predict request for which the store holds at least 1 and
\* fewer than 12 measurements of (city, parameter), while a trained model for
\* the pair is available, is answered by the model tier (model_type
\* 'RandomForestRegressor') and not by the fallback tier.
C11_ModelTierBelowThreshold ==
    (/\ ServedValid
     /\ FoundAtSelection >= 1
     /\ FoundAtSelection < 12
     /\ ModelAvailableForRequest) =>
        /\ response.status = 200
        /\ response.model_metadata.model_type = "RandomForestRegressor"

\* C12: every /predict request with a valid parameter and hours_ahead in
\* 1..168 ends with a forecast batch of hours_ahead points and never with an
\* error: a missing model, a short history and a failed AirNow ingestion are
\* not surfaced to the caller.
C12_AlwaysAForecast ==
    ServedValid =>
        /\ response.status = 200
        /\ Len(response.predictions) = request.hours_ahead
        /\ Len(response.confidence_intervals) = request.hours_ahead

\* a forecast is returned although no model file exists, the store holds
\* nothing for the pair and the ingestion attempt wrote nothing
C12_Witness ==
    /\ ServedValid
    /\ model_files = {}
    /\ log.ingests = 1
    /\ db = <<>>
    /\ response.status = 200
    /\ Len(response.predictions) = request.hours_ahead


\* the parameters and the range of hours_ahead that the API accepts
AcceptedRequest(req) ==
    /\ req.parameter \in {"PM2.5", "O3", "NO2"}
    /\ req.hours_ahead >= 1
    /\ req.hours_ahead <= 168

\* C13: a /predict request whose parameter is not PM2.5, O3 or NO2, or whose
\* hours_ahead is outside 1..168, is rejected with a validation error before
\* any tier logic runs: no ingestion, no store query, no cache read or write,
\* no forecaster call, and the store and the cache are left as they were.
C13_RejectedBeforeTiers ==
    [][(request' # <<>> /\ ~AcceptedRequest(request')) =>
          /\ response'.status \in {400, 422}
          /\ log' = Did(0, <<>>, FALSE, FALSE, FALSE, FALSE)
          /\ db' = db
          /\ prediction_cache' = prediction_cache
          /\ forecaster' = forecaster]_vars

\* an unknown parameter is rejected while the store and the cache hold data
C13_Witness ==
    /\ request # <<>>
    /\ request.parameter = "CO"
    /\ request.hours_ahead = 2
    /\ response = HTTPException(400)
    /\ log = Did(0, <<>>, FALSE, FALSE, FALSE, FALSE)
    /\ db # <<>>
    /\ prediction_cache # {}


-----------------------------------------------------------------------------
(* generate_deterministic_predictions and the global random generator *)

\* the direct calls of the generator that are followed
MaxCalls == 3

\* the draws other code may take from the global generator between two calls
MaxDrawn == 12

GenerateCalls ==
    {<<"Austin", "PM2.5", 2>>, <<"Austin", "PM2.5", 3>>,
     <<"Austin", "O3", 2>>, <<"Dallas", "PM2.5", 2>>}

InitGenerate ==
    /\ now = ApiStartHour
    /\ CleanIdle
    /\ ConvIdle
    /\ OutIdle
    /\ ApiIdle

\* a call generate_deterministic_predictions(city, parameter, hours_ahead)
Generate ==
    /\ Len(gen_calls) < MaxCalls
    /\ \E call \in GenerateCalls :
         \E out \in {generate_deterministic_predictions(call[1], call[2], call[3],
                                                        now, np_random)} :
            /\ gen_calls' = Append(gen_calls,
                                   [city |-> call[1],
                                    parameter |-> call[2],
                                    hours_ahead |-> call[3],
                                    at |-> now,
                                    predictions |-> out.predictions,
                                    confidence_intervals |->
                                        out.confidence_intervals,
                                    drawn_before |-> np_random.drawn])
            /\ np_random' = out.np_random
    /\ UNCHANGED <<now, cleanVars, convVars, outVars, db, prediction_cache,
                   model_files, forecaster, request, response, log, minute,
                   ml_call, ml_result,
                   ingest_call, ingest_result>>

\* one simulated weather record (data_ingest.py): six draws from the global
\* generator, which is not seeded again
WeatherRecord ==
    /\ np_random.drawn + 6 <= MaxDrawn
    /\ np_random' = np_random_drawn(np_random, 6)
    /\ UNCHANGED <<now, cleanVars, convVars, outVars, db, prediction_cache,
                   model_files, forecaster, request, response, log, minute,
                   gen_calls, ml_call, ml_result,
                   ingest_call, ingest_result>>

NextGenerate == Generate \/ WeatherRecord \/ Tick

SpecGenerate == InitGenerate /\ [][NextGenerate]_vars

\* two calls with the same arguments made in the same clock hour
SameCallSameHour(a, b) ==
    /\ a.city = b.city
    /\ a.parameter = b.parameter
    /\ a.hours_ahead = b.hours_ahead
    /\ a.at = b.at

\* C14: any two calls of generate_deterministic_predictions with the same
\* (city, parameter, hours_ahead) made within the same UTC hour return
\* identical prediction arrays and identical confidence intervals, whatever
\* other calls (for other cities or parameters) and whatever other draws from
\* the global generator came in between.
C14_FallbackDeterminism ==
    \A i \in DOMAIN gen_calls : \A j \in DOMAIN gen_calls :
        SameCallSameHour(gen_calls[i], gen_calls[j]) =>
            /\ gen_calls[i].predictions = gen_calls[j].predictions
            /\ gen_calls[i].confidence_intervals = gen_calls[j].confidence_intervals

\* two equal calls in one hour with a call for another parameter between
\* them, the second of the two made when the global generator had been drawn
\* from further than at the first
C14_Witness ==
    /\ Len(gen_calls) = 3
    /\ SameCallSameHour(gen_calls[1], gen_calls[3])
    /\ gen_calls[2].parameter # gen_calls[1].parameter
    /\ gen_calls[2].at = gen_calls[1].at
    /\ gen_calls[3].drawn_before > gen_calls[1].drawn_before
    /\ gen_calls[1].predictions = gen_calls[3].predictions


-----------------------------------------------------------------------------
(* The prediction cache over more than one day *)

\* the days the clock may advance at once
MaxDays == 1

\* a day passes while no request is being served: the process keeps running,
\* the cache is a module-level dict that nothing empties
NextDay ==
    /\ now < ApiStartHour + 24 * MaxDays
    /\ now' = now + 24
    /\ UNCHANGED <<cleanVars, convVars, outVars, apiVars>>

NextDays == Tick \/ NextDay \/ PredictRejected \/ Predict

SpecDays == Init /\ [][NextDays]_vars

\* the entries get_cached_prediction would answer with when the clock reads t
CacheHits(t) ==
    {e \in prediction_cache :
        /\ e.key[4] = hour(t)
        /\ get_cached_prediction(prediction_cache, e.key[1], e.key[2], e.key[3],
                                 t, t) = e.prediction}

\* C15: a payload put into the prediction cache is returned by
\* get_cached_prediction only while the wall clock is still within the same
\* clock hour in which it was cached; a read made in any later hour, the same
\* hour-of-day on a later day included, is a miss.
C15_HitOnlyInHourOfCaching ==
    \A e \in CacheHits(now) : e.cached_at.hour = now

\* a read in a later hour of the same day is a miss
C15_MissLaterSameDay ==
    \A e \in prediction_cache :
        (e.cached_at.hour < now /\ now < e.cached_at.hour + 24) =>
            e \notin CacheHits(now)


-----------------------------------------------------------------------------
(* Cache hits of /predict *)

\* what get_cached_prediction answers for request req when the cache is
\* cache and the clock reads t
CachedFor(cache, req, t) ==
    get_cached_prediction(cache, req.city, req.parameter, req.hours_ahead, t, t)

\* C16: on a cache hit in the fallback path, /predict returns exactly the
\* payload that was stored for that (city, parameter, hours_ahead, hour) key,
\* without calling generate_deterministic_predictions and without writing to
\* the cache; the cache content is unchanged by the hit.
C16_CacheHitReturnsStored ==
    [][(/\ ServedValid'
        /\ log'.cache_read
        /\ CachedFor(prediction_cache, request', now') # PyNone) =>
          /\ response' = CachedFor(prediction_cache, request', now')
          /\ ~log'.generated
          /\ ~log'.cache_written
          /\ prediction_cache' = prediction_cache
          /\ np_random' = np_random]_vars

\* a request answered from the cache: the fallback path was taken, nothing
\* was generated, and the response is the payload of the entry of its key
C16_Witness ==
    /\ ServedValid
    /\ FoundAtSelection < TrendMinimum
    /\ log.cache_read
    /\ ~log.generated
    /\ ~log.cache_written
    /\ response = CachedFor(prediction_cache, request, now)
    /\ response.model_metadata.model_type = "Deterministic Sample Predictions"


-----------------------------------------------------------------------------
(* Payloads built twice for one cache key *)

\* the minutes that may pass within an hour
MaxMinute == 1

\* a minute passes while no request is being served
Pass ==
    /\ minute < MaxMinute
    /\ minute' = minute + 1
    /\ UNCHANGED <<now, cleanVars, convVars, outVars, db, prediction_cache,
                   model_files, forecaster, request, response, log, np_random,
                   gen_calls, ml_call, ml_result,
                   ingest_call, ingest_result>>

\* the server process is started again: the module-level objects of main.py
\* are built anew, the store and the model files persist. request, response
\* and log are what the clients last saw and stay.
Restart ==
    /\ prediction_cache' = {}
    /\ forecaster' = PyNone
    /\ np_random' = np_random_unseeded
    /\ UNCHANGED <<now, cleanVars, convVars, outVars, db, model_files, request,
                   response, log, minute, gen_calls, ml_call, ml_result,
                   ingest_call, ingest_result>>

NextRestart == Tick \/ Pass \/ Restart \/ PredictRejected \/ Predict

SpecRestart == Init /\ [][NextRestart]_vars

\* the step serves a request by building a fallback payload, and the request
\* served before it was for the same (city, parameter, hours_ahead), was
\* answered by a payload built in the same clock hour
SecondBuildInHour ==
    /\ ServedValid
    /\ log.generated
    /\ ServedValid'
    /\ log'.generated
    /\ request'.city = request.city
    /\ request'.parameter = request.parameter
    /\ request'.hours_ahead = request.hours_ahead
    /\ response.timestamp.hour = now'
    /\ response'.timestamp.hour = now'

\* the values of a fallback payload without the instants it carries
ForecastValues(payload) ==
    [predictions |->
         [k \in DOMAIN payload.predictions |-> payload.predictions[k].value],
     confidence_intervals |->
         [k \in DOMAIN payload.confidence_intervals |->
             <<payload.confidence_intervals[k].lower,
               payload.confidence_intervals[k].upper>>]]

\* C17: any two fallback requests for the same (city, parameter, hours_ahead)
\* served within the same UTC hour build identical payloads to write to the
\* cache, so that the cache entry after both writes is the same whichever
\* write lands last.
C17_SamePayloadInHour ==
    [][SecondBuildInHour => response' = response]_vars

\* the forecast values of the two payloads are the same
C17_SameValuesInHour ==
    [][SecondBuildInHour =>
          ForecastValues(response') = ForecastValues(response)]_vars


-----------------------------------------------------------------------------
(* The instants of the forecast points *)

\* instant a is strictly later than instant b
Later(a, b) == a.hour > b.hour \/ (a.hour = b.hour /\ a.minute > b.minute)

\* the step serves a valid request with a forecast and shows in the request,
\* the response or the log
ForecastServed ==
    /\ ServedValid'
    /\ response'.status = 200
    /\ <<request', response', log'>> # <<request, response, log>>

\* the points of payload are hours_ahead many, all later than the instant at,
\* one hour apart in increasing order
HourlyFrom(payload, hours_ahead, at) ==
    /\ Len(payload.predictions) = hours_ahead
    /\ \A k \in DOMAIN payload.predictions :
          Later(payload.predictions[k].timestamp, at)
    /\ \A k \in DOMAIN payload.predictions :
          k > 1 =>
             /\ payload.predictions[k].timestamp.hour =
                    payload.predictions[k - 1].timestamp.hour + 1
             /\ payload.predictions[k].timestamp.minute =
                    payload.predictions[k - 1].timestamp.minute

\* C19: every successful /predict response, freshly computed or served from
\* the cache, contains exactly hours_ahead forecast points whose timestamps
\* are all strictly later than the time the request is served and are spaced
\* exactly one hour apart in increasing order.
C19_HourlyFuturePoints ==
    [][ForecastServed =>
          HourlyFrom(response', request'.hours_ahead,
                     instant(now', minute'))]_vars

\* the same for the responses that are not taken from the cache
C19_FreshHourlyFuturePoints ==
    [][(ForecastServed /\ (log'.cache_read => log'.generated)) =>
          HourlyFrom(response', request'.hours_ahead,
                     instant(now', minute'))]_vars


-----------------------------------------------------------------------------
(* AirQualityForecaster (ml_model.py): train_model, load_model, predict *)

\* line 82: the rows train_model needs
TrainMinimum == 100

\* line 98: the rows it needs after prepare_features
FeatureMinimum == 50

\* line 192: the rows predict needs
RecentMinimum == 24

\* lines 51, 60: the longest lag and difference of prepare_features
LongestLag == 24

\* lines 78 and 188: the windows of the two queries, in days
TrainingDays == 90
RecentDays == 7

\* the values of the rows of (city, parameter) not older than days days when
\* the clock reads t, oldest first (lines 74-80, 184-190)
history(rows, city, parameter, days, t) ==
    LET match(row) == /\ row.city = city
                      /\ row.parameter = parameter
                      /\ row.date_utc >= t - timedelta_days(days)
        found == SelectSeq(rows, match)
        in_order == \A i \in 1..(Len(found) - 1) :
                        found[i].date_utc <= found[i + 1].date_utc
        \* order_by(date_utc): rows found in time order stay as they are
        ordered == IF in_order THEN found ELSE sorted_by_date(found)
    IN [i \in 1..Len(ordered) |-> ordered[i].value]

\* prepare_features: shift(24) and diff(24) leave the first 24 rows without a
\* value and dropna removes them; the values of the rows that stay
prepare_features(values) ==
    IF Len(values) <= LongestLag
    THEN <<>>
    ELSE SubSeq(values, LongestLag + 1, Len(values))

\* train_test_split(test_size=0.2, shuffle=False): the targets of the
\* training part
y_train(values) == SubSeq(values, 1, (8 * Len(values)) \div 10)

\* a fitted RandomForestRegressor stands as the pair whose rows it was fitted
\* to. Its output is an average of averages of training targets: it lies
\* between the least and the greatest of them, and "low" and "high" are these
\* two ends. The store does not change while the forecaster is followed, so
\* the targets are those train_model finds in it.
regressor_predict(rows, model, t, output) ==
    LET targets == y_train(prepare_features(
                       history(rows, model[1], model[2], TrainingDays, t)))
        ys == {targets[i] : i \in DOMAIN targets}
    IN IF output = "low"
       THEN CHOOSE y \in ys : \A z \in ys : y <= z
       ELSE CHOOSE y \in ys : \A z \in ys : y >= z

ValueError(message) == [kind |-> "ValueError", message |-> message]

\* a variant of train_model that builds and saves the regressor before it
\* counts the rows
train_model_fits_first(self, files, rows, city, parameter, t) ==
    LET found == history(rows, city, parameter, TrainingDays, t)
        fitted == [self EXCEPT !.model = <<city, parameter>>,
                               !.feature_columns = feature_columns_of_df,
                               !.is_trained = TRUE]
    IN IF Len(found) < TrainMinimum
       THEN [forecaster |-> fitted,
             model_files |-> files \cup {<<city, parameter>>},
             result |-> ValueError("Insufficient data for training")]
       ELSE [forecaster |-> fitted,
             model_files |-> files \cup {<<city, parameter>>},
             result |-> [kind |-> "ok",
                         training_samples |-> Len(y_train(prepare_features(found))),
                         test_samples |-> Len(prepare_features(found))
                                           - Len(y_train(prepare_features(found)))]]

\* train_model: the forecaster and the model files after the call, and what
\* the call returns or raises
train_model(self, files, rows, city, parameter, t) ==
    LET found == history(rows, city, parameter, TrainingDays, t)
        df == prepare_features(found)
    IN IF Len(found) < TrainMinimum
       THEN [forecaster |-> self, model_files |-> files,
             result |-> ValueError("Insufficient data for training")]
       ELSE IF Len(df) < FeatureMinimum
       THEN [forecaster |-> self, model_files |-> files,
             result |-> ValueError("Insufficient data after feature preparation")]
       ELSE [forecaster |-> [self EXCEPT !.model = <<city, parameter>>,
                                         !.feature_columns = feature_columns_of_df,
                                         !.is_trained = TRUE],
             model_files |-> files \cup {<<city, parameter>>},
             result |-> [kind |-> "ok",
                         training_samples |-> Len(y_train(df)),
                         test_samples |-> Len(df) - Len(y_train(df))]]

\* load_model: the forecaster after the call and the value returned
load_model(self, files, city, parameter) ==
    IF <<city, parameter>> \notin files
    THEN [forecaster |-> self, result |-> FALSE]
    ELSE [forecaster |-> [self EXCEPT !.model = <<city, parameter>>,
                                      !.feature_columns = feature_columns_of_df,
                                      !.is_trained = TRUE],
          result |-> TRUE]

\* predict: the forecaster after the call and what the call returns or
\* raises. output[k] is what the regressor answers in pass k of the loop.
\* np.std of the one value the regressor returns for one row is 0, so the
\* interval is (max(0, prediction), prediction).
predict(self, files, rows, city, parameter, hours_ahead, t, output) ==
    LET load == IF ~self.is_trained
                THEN load_model(self, files, city, parameter)
                ELSE [forecaster |-> self, result |-> TRUE]
        recent_data == history(rows, city, parameter, RecentDays, t)
        df == prepare_features(recent_data)
        low == regressor_predict(rows, load.forecaster.model, t, "low")
        high == regressor_predict(rows, load.forecaster.model, t, "high")
        prediction(k) == IF output[k] = "low" THEN low ELSE high
        confidence_std == 0
    IN IF ~load.result
       THEN [forecaster |-> self,
             result |-> ValueError("No trained model found")]
       ELSE IF Len(recent_data) < RecentMinimum
       THEN [forecaster |-> load.forecaster,
             result |-> ValueError("Insufficient recent data for prediction")]
       ELSE IF Len(df) = 0
       THEN [forecaster |-> load.forecaster,
             result |-> ValueError("No data available after feature preparation")]
       ELSE [forecaster |-> load.forecaster,
             result |->
                 [kind |-> "ok",
                  model |-> load.forecaster.model,
                  predictions |-> [k \in 1..hours_ahead |-> prediction(k)],
                  confidence_intervals |->
                      [k \in 1..hours_ahead |->
                          <<Max(0, prediction(k) - confidence_std),
                            prediction(k) + confidence_std>>],
                  data_points_used |-> Len(df)]]

-----------------------------------------------------------------------------
(* One forecaster over a store that holds four histories *)

\* the hour at which the forecaster is followed
ForecasterStart == timedelta_days(5)

\* the n hourly rows of (city, parameter) up to the hour before t;
\* value[k] is the value of the k-th of them
Stored(city, parameter, n, t, value) ==
    [k \in 1..n |->
        Measurement(city, parameter, value[k],
                    IF parameter = "PM2.5" THEN "µg/m³" ELSE "ppb",
                    t - n + k - 1, "airnow")]

\* an AirNow history with an outage: the AQI is reported as -1 for ten hours
OutageValues(n) == [k \in 1..n |-> IF 40 <= k /\ k < 50 THEN -1 ELSE 40 + (k % 7)]

SteadyValues(n) == [k \in 1..n |-> 20 + (k % 5)]

\* Austin PM2.5 and Austin O3 can be trained on; Dallas PM2.5 is long enough
\* for predict only; Dallas O3 has the 24 rows that prepare_features removes;
\* Dallas NO2 has no rows
ForecasterStore ==
    Stored("Austin", "PM2.5", TrainMinimum, ForecasterStart,
           OutageValues(TrainMinimum))
      \o Stored("Austin", "O3", TrainMinimum, ForecasterStart,
                SteadyValues(TrainMinimum))
      \o Stored("Dallas", "PM2.5", RecentMinimum + 6, ForecasterStart,
                SteadyValues(RecentMinimum + 6))
      \o Stored("Dallas", "O3", RecentMinimum, ForecasterStart,
                SteadyValues(RecentMinimum))

MlPairs ==
    {<<"Austin", "PM2.5">>, <<"Austin", "O3">>, <<"Dallas", "PM2.5">>,
     <<"Dallas", "O3">>, <<"Dallas", "NO2">>}

MlHoursAhead == {1, 2}

\* the model files a run may find: those of the pairs train_model accepts
InitForecaster ==
    /\ now = ForecasterStart
    /\ CleanIdle
    /\ ConvIdle
    /\ OutIdle
    /\ db = ForecasterStore
    /\ prediction_cache = {}
    /\ model_files \in SUBSET {<<"Austin", "PM2.5">>, <<"Austin", "O3">>}
    /\ forecaster = AirQualityForecaster
    /\ request = <<>>
    /\ response = <<>>
    /\ log = <<>>
    /\ CallsIdle

MlCall(op, pair, hours_ahead) ==
    [op |-> op, city |-> pair[1], parameter |-> pair[2],
     hours_ahead |-> hours_ahead]

TrainModel ==
    \E pair \in MlPairs :
      \E out \in {train_model(forecaster, model_files, db, pair[1], pair[2], now)} :
        /\ ml_call' = MlCall("train_model", pair, 0)
        /\ ml_result' = out.result
        /\ forecaster' = out.forecaster
        /\ model_files' = out.model_files
        /\ UNCHANGED <<now, cleanVars, convVars, outVars, db, prediction_cache,
                       request, response, log, np_random, minute, gen_calls,
                   ingest_call, ingest_result>>

LoadModel ==
    \E pair \in MlPairs :
      \E out \in {load_model(forecaster, model_files, pair[1], pair[2])} :
        /\ ml_call' = MlCall("load_model", pair, 0)
        /\ ml_result' = [kind |-> "ok", loaded |-> out.result]
        /\ forecaster' = out.forecaster
        /\ UNCHANGED <<now, cleanVars, convVars, outVars, db, prediction_cache,
                       model_files, request, response, log, np_random, minute,
                       gen_calls,
                   ingest_call, ingest_result>>

PredictDirect ==
    \E pair \in MlPairs : \E hours_ahead \in MlHoursAhead :
      \E output \in [1..hours_ahead -> {"low", "high"}] :
        \E out \in {predict(forecaster, model_files, db, pair[1], pair[2],
                            hours_ahead, now, output)} :
          /\ ml_call' = MlCall("predict", pair, hours_ahead)
          /\ ml_result' = out.result
          /\ forecaster' = out.forecaster
          /\ UNCHANGED <<now, cleanVars, convVars, outVars, db, prediction_cache,
                         model_files, request, response, log, np_random, minute,
                         gen_calls,
                   ingest_call, ingest_result>>

NextForecaster == TrainModel \/ LoadModel \/ PredictDirect

SpecForecaster == InitForecaster /\ [][NextForecaster]_vars


-----------------------------------------------------------------------------
(* Properties of the forecast points and of the forecaster's model *)

\* the last call on the forecaster was predict and it returned a forecast
PredictReturned ==
    /\ ml_call # <<>>
    /\ ml_call.op = "predict"
    /\ ml_result.kind = "ok"

\* C18: every forecast point returned by any tier (trend, model, fallback,
\* or a cached fallback) satisfies predicted_value >= 0, interval_lower >= 0
\* and interval_upper >= interval_lower, for every stored history and every
\* value the regression model may predict. Here for the points that
\* AirQualityForecaster.predict returns to the model tier.
C18_PointsNonNegative ==
    PredictReturned =>
        \A k \in DOMAIN ml_result.predictions :
            /\ ml_result.predictions[k] >= 0
            /\ ml_result.confidence_intervals[k][1] >= 0
            /\ ml_result.confidence_intervals[k][2] >=
                   ml_result.confidence_intervals[k][1]

\* the same for the points of the responses of /predict, which come from the
\* trend tier, the fallback tier and the cache
C18_ServedPointsNonNegative ==
    (ServedValid /\ response.status = 200) =>
        /\ \A k \in DOMAIN response.predictions :
              response.predictions[k].value >= 0
        /\ \A k \in DOMAIN response.confidence_intervals :
              /\ response.confidence_intervals[k].lower >= 0
              /\ response.confidence_intervals[k].upper >=
                     response.confidence_intervals[k].lower

\* C20: after any sequence of train_model, load_model and predict calls on
\* one AirQualityForecaster, predict(city, parameter) computes its values
\* only with a model trained for that same (city, parameter); when no model
\* for that pair has been trained or persisted it fails with the
\* model-not-found error instead of using the model of another pair, and it
\* never trains on demand.
C20_ModelOfThePairOnly ==
    (ml_call # <<>> /\ ml_call.op = "predict") =>
        /\ ml_result.kind = "ok" =>
              ml_result.model = <<ml_call.city, ml_call.parameter>>
        /\ <<ml_call.city, ml_call.parameter>> \notin model_files =>
              ml_result = ValueError("No trained model found")

\* predict writes no model file
C20_NeverTrainsOnDemand ==
    [][(ml_call' # <<>> /\ ml_call'.op = "predict") =>
          model_files' = model_files]_vars

\* a forecaster that has not been trained and has loaded nothing raises the
\* model-not-found error for a pair without a model file
C20_UntrainedRaises ==
    [][(/\ ml_call' # <<>>
        /\ ml_call'.op = "predict"
        /\ ~forecaster.is_trained
        /\ <<ml_call'.city, ml_call'.parameter>> \notin model_files) =>
          ml_result' = ValueError("No trained model found")]_vars


-----------------------------------------------------------------------------
(* Failures of train_model *)

\* the rows train_model finds for the pair of the call when the clock reads t
TrainingRows(call, t) ==
    history(db, call.city, call.parameter, TrainingDays, t)

\* the step is a call of train_model for a pair with fewer than 100 rows in
\* the last 90 days, or fewer than 50 after prepare_features
TrainedOnTooLittle ==
    /\ ml_call' # <<>>
    /\ ml_call'.op = "train_model"
    /\ \/ Len(TrainingRows(ml_call', now)) < TrainMinimum
       \/ Len(prepare_features(TrainingRows(ml_call', now))) < FeatureMinimum

\* C21: train_model for a (city, parameter) with fewer than 100 measurements
\* in the last 90 days (or fewer than 50 rows after feature derivation) fails
\* with the insufficient-data error without retrying, and leaves the
\* forecaster unchanged: no model file is written, and model,
\* feature_columns and is_trained keep their previous values.
C21_TrainFailureChangesNothing ==
    [][TrainedOnTooLittle =>
          /\ ml_result'.kind = "ValueError"
          /\ ml_result'.message \in
                 {"Insufficient data for training",
                  "Insufficient data after feature preparation"}
          /\ model_files' = model_files
          /\ forecaster'.model = forecaster.model
          /\ forecaster'.feature_columns = forecaster.feature_columns
          /\ forecaster'.is_trained = forecaster.is_trained]_vars

\* train_model has failed for Dallas PM2.5 on a forecaster that holds the
\* model of Austin O3, and the forecaster holds it still
C21_Witness ==
    /\ ml_call # <<>>
    /\ ml_call.op = "train_model"
    /\ ml_call.city = "Dallas"
    /\ ml_result = ValueError("Insufficient data for training")
    /\ forecaster.is_trained
    /\ forecaster.model = <<"Austin", "O3">>
    /\ forecaster.feature_columns = feature_columns_of_df
    /\ model_files = {<<"Austin", "O3">>}


-----------------------------------------------------------------------------
(* The rows ingest_airnow_for_city writes *)

\* rows i and j of the store are AirNow records of the same city, parameter
\* and hour
SameAirNowReading(i, j) ==
    /\ db[i].source = "airnow"
    /\ db[j].source = "airnow"
    /\ db[i].city = db[j].city
    /\ db[i].parameter = db[j].parameter
    /\ db[i].date_utc = db[j].date_utc

-----------------------------------------------------------------------------
(* DataIngestionManager.ingest_all_data (data_ingest.py) *)

\* the sources in the order ingest_all_data goes through them
Sources == <<"tolnet", "openaq", "weather">>

\* the entry every source starts with (lines 110-114)
SourceDefault == [success |-> FALSE, records |-> 0, error |-> PyNone]

\* what a call of ingest_tolnet_data, ingest_openaq_data or
\* ingest_weather_data can come to: it commits n records and returns them
\* counted; it catches a failure of its API or of the commit, rolls back and
\* returns the failure (lines 233-240); or it raises before its own try, at
\* the lookup of its configuration (line 166)
SourceOutcomes ==
    {[kind |-> "returned", records |-> n, error |-> ""] : n \in {0, 2}}
      \cup {[kind |-> "failed", records |-> 0, error |-> "HTTPError"],
            [kind |-> "raised", records |-> 0, error |-> "KeyError"]}

\* the dictionary an ingest_*_data call returns for outcome o
source_result(o) ==
    IF o.kind = "returned"
    THEN [success |-> TRUE, records |-> o.records, error |-> PyNone]
    ELSE [success |-> FALSE, records |-> 0, error |-> PyText(o.error)]

\* a variant of the block that lets the exception of a source leave
\* ingest_all_data
ingest_block_unguarded(state, s, enabled, outcome) ==
    IF state.halted \/ ~enabled[s]
    THEN state
    ELSE IF outcome[s].kind = "raised"
    THEN [state EXCEPT !.attempted = Append(@, s),
                       !.results[s].error = PyText(outcome[s].error),
                       !.halted = TRUE]
    ELSE [state EXCEPT !.attempted = Append(@, s),
                       !.results[s] = source_result(outcome[s])]

\* one block of lines 117-141: results and the calls made so far, after the
\* block of source s; halted says that an exception has left the method
ingest_block(state, s, enabled, outcome) ==
    IF state.halted \/ ~enabled[s]
    THEN state
    ELSE IF outcome[s].kind = "raised"
    THEN [state EXCEPT !.attempted = Append(@, s),
                       !.results[s].error = PyText(outcome[s].error)]
    ELSE [state EXCEPT !.attempted = Append(@, s),
                       !.results[s] = source_result(outcome[s])]

\* ingest_all_data: what it returns, and the sources it has called, for the
\* enabled flags of the configuration and the outcome each source has if it
\* is called
ingest_all_data(enabled, outcome) ==
    LET start == [results |-> [s \in {"tolnet", "openaq", "weather"} |->
                                  SourceDefault],
                  attempted |-> <<>>,
                  halted |-> FALSE]
        after_tolnet == ingest_block(start, "tolnet", enabled, outcome)
        after_openaq == ingest_block(after_tolnet, "openaq", enabled, outcome)
        after_weather == ingest_block(after_openaq, "weather", enabled, outcome)
    IN IF after_weather.halted
       THEN [kind |-> "raise", attempted |-> after_weather.attempted,
             results |-> after_weather.results, total_records |-> 0]
       ELSE [kind |-> "ok", attempted |-> after_weather.attempted,
             results |-> after_weather.results,
             total_records |->
                 after_weather.results["tolnet"].records
                   + after_weather.results["openaq"].records
                   + after_weather.results["weather"].records]

InitIngestAll ==
    /\ now = ApiStartHour
    /\ CleanIdle
    /\ ConvIdle
    /\ OutIdle
    /\ ApiIdle

IngestAllData ==
    \E enabled \in [{"tolnet", "openaq", "weather"} -> BOOLEAN] :
      \E outcome \in [{"tolnet", "openaq", "weather"} -> SourceOutcomes] :
        /\ ingest_call' = [enabled |-> enabled, outcome |-> outcome]
        /\ ingest_result' = ingest_all_data(enabled, outcome)
        /\ UNCHANGED <<now, cleanVars, convVars, outVars, db, prediction_cache,
                       model_files, forecaster, request, response, log,
                       np_random, minute, gen_calls, ml_call, ml_result>>

NextIngestAll == IngestAllData

SpecIngestAll == InitIngestAll /\ [][NextIngestAll]_vars

\* source s is enabled in the last call and its ingestion fails
SourceFails(s) ==
    /\ ingest_call.enabled[s]
    /\ ingest_call.outcome[s].kind # "returned"

\* the sources the last call has called
Attempted == {ingest_result.attempted[i] : i \in DOMAIN ingest_result.attempted}

\* C23: in ingest_all_data, a failure of one source (TOLNet, OpenAQ or
\* weather) never prevents the remaining enabled sources from being
\* attempted in the same call: the failing source is reported with success
\* false, records 0 and its error, the others report their own outcome, and
\* total_records is the sum of the per-source record counts.
C23_FailureOfOneSourceIsContained ==
    ingest_call # <<>> =>
        /\ ingest_result.kind = "ok"
        /\ \A s \in {"tolnet", "openaq", "weather"} :
              /\ ingest_call.enabled[s] <=> s \in Attempted
              /\ SourceFails(s) =>
                    /\ ingest_result.results[s].success = FALSE
                    /\ ingest_result.results[s].records = 0
                    /\ ingest_result.results[s].error =
                           PyText(ingest_call.outcome[s].error)
              /\ (ingest_call.enabled[s] /\ ~SourceFails(s)) =>
                    ingest_result.results[s] =
                        [success |-> TRUE,
                         records |-> ingest_call.outcome[s].records,
                         error |-> PyNone]
        /\ ingest_result.total_records =
               ingest_result.results["tolnet"].records
                 + ingest_result.results["openaq"].records
                 + ingest_result.results["weather"].records

\* TOLNet raises and OpenAQ returns a failure, and the weather ingestion is
\* still called and its two records are the total
C23_Witness ==
    /\ ingest_call # <<>>
    /\ ingest_call.enabled = [s \in {"tolnet", "openaq", "weather"} |-> TRUE]
    /\ ingest_call.outcome["tolnet"].kind = "raised"
    /\ ingest_call.outcome["openaq"].kind = "failed"
    /\ ingest_call.outcome["weather"].records = 2
    /\ ingest_result.attempted = Sources
    /\ ingest_result.results["weather"].success
    /\ ingest_result.total_records = 2


-----------------------------------------------------------------------------
(* Cleaning and the spelling of the parameter *)

\* a and b are names of the same pollutant: the alias table or the upper
\* case bring both to the same canonical name
SamePollutant(a, b) ==
    /\ _normalize_parameter_name(a) \in DOMAIN PARAMETER_RANGES
    /\ _normalize_parameter_name(a) = _normalize_parameter_name(b)

\* what a caller sees of a cleaned batch: which records were kept and with
\* which parameter, value and unit
CleaningOutcome(list) ==
    [i \in DOMAIN list |->
        [parameter |-> list[i].parameter, value |-> list[i].value,
         unit |-> list[i].unit]]

\* C24: cleaning is invariant under parameter aliasing: for any raw record,
\* replacing its parameter by another alias or by the canonical name of the
\* same pollutant (e.g. 'ozone', 'o3', 'O3') gives the same outcome from
\* clean_measurements, the same keep/drop decision and the same parameter,
\* value and unit.
C24_AliasInvariant ==
    clean_status = "returned" =>
        \A a \in RawParameters \cup {"o3", "no2"} :
            SamePollutant(a, measurements[1].parameter) =>
                CleaningOutcome(
                    clean_measurements(
                        <<[measurements[1] EXCEPT !.parameter = a]>>, now))
                  = CleaningOutcome(cleaned)

-----------------------------------------------------------------------------
(* Outlier flags in a batch that mixes parameters *)

\* the indices a method returns for a value series
OutliersOf(values, method) ==
    CASE method = "iqr" -> _detect_outliers_iqr(values)
      [] method = "zscore" -> _detect_outliers_zscore(values)
      [] method = "modified_zscore" -> _detect_outliers_modified_zscore(values)
      [] OTHER -> {}

\* the place of the batch's i-th record in the analysed parameter's series
PlaceInSeries(i) ==
    Cardinality({j \in 1..i : out_call[1][j].parameter = out_call[2]})

\* C25: for a batch mixing several parameters with at least 3 records of the
\* analysed parameter, is_outlier is True on exactly the records of the
\* analysed parameter whose value is an outlier of that parameter's series
\* under the chosen method, and False on every other record.
C25_FlagsTheOutlyingRecords ==
    (out_result # <<>> /\ Len(AnalysedValues) >= 3) =>
        /\ Len(out_result[1]) = Len(out_call[1])
        /\ \A i \in 1..Len(out_result[1]) :
               out_result[1][i].is_outlier =
                   PyBool(/\ out_call[1][i].parameter = out_call[2]
                          /\ PlaceInSeries(i) \in
                                 OutliersOf(AnalysedValues, out_call[3]))

-----------------------------------------------------------------------------
(* The fallback tier after the late ingestion attempt *)

\* the rows the handler's last store query returned for the request
FoundAtLastQuery == log.found[Len(log.found)]

\* the last request was answered with a fallback payload, freshly generated
\* or taken from the cache
FallbackServed ==
    /\ ServedValid
    /\ log.cache_read

\* C26: a fallback response (freshly generated or served from the cache) is
\* returned only when the store holds fewer than 12 measurements of
\* (city, parameter) at the moment the tier is chosen; when the in-request
\* AirNow ingestion attempt raises the count to 12 or more, the request is
\* served by the trend tier.
C26_FallbackOnlyBelowThreshold ==
    /\ FallbackServed => FoundAtLastQuery < TrendMinimum
    /\ (ServedValid /\ FoundAtLastQuery >= TrendMinimum) =>
           /\ response.status = 200
           /\ response.model_metadata.model_type = "Trend-Based Forecast"

-----------------------------------------------------------------------------
(* Requests during which the wall clock passes into the next hour *)

\* a request served while the clock changes hour just before one of the
\* handler's readings of it, or does not change at all
PredictAcrossHour ==
    \E req \in Requests :
        /\ PredictRequest_valid(req)
        /\ \E tick_at \in 0..LastReading(req) :
              /\ tick_at # 0 => now < ApiStartHour + MaxTicks
              /\ Serve(req, tick_at)

NextAcrossHour == Tick \/ PredictAcrossHour

SpecAcrossHour == Init /\ [][NextAcrossHour]_vars

\* the values a call of the generator in hour h returns for the key's request
GeneratedInHour(key, h) ==
    LET out == generate_deterministic_predictions(key[1], key[2], key[3], h,
                                                  np_random_unseeded)
    IN [predictions |-> out.predictions,
        confidence_intervals |-> out.confidence_intervals]

\* C27: in every reachable state, each entry of prediction_cache stored under
\* a key with hour component h has cached_hour = h and holds the prediction
\* values generated from the seed of hour h, for every interleaving of
\* wall-clock hour changes with the steps of a request (cache lookup,
\* generation, cache write); a cache hit therefore returns the values a
\* recomputation in that hour would produce.
C27_EntryHoldsValuesOfItsHour ==
    \A e \in prediction_cache :
        /\ e.cached_hour = e.key[4]
        /\ ForecastValues(e.prediction) = GeneratedInHour(e.key, e.key[4])

\* the key's hour and cached_hour are always the same reading of the clock
C27_CachedHourIsKeyHour ==
    \A e \in prediction_cache : e.cached_hour = e.key[4]

-----------------------------------------------------------------------------
(* The time-of-day factor of the fallback tier's forecast points *)

\* the last request was answered with a freshly generated fallback payload
FallbackGenerated ==
    /\ ServedValid
    /\ log.generated

\* the value, in hundredths, of the k-th point of the payload when the mean
\* is scaled by the factor of hour_of_day: lines 207-208 and 215 with the
\* k-th deviate of the payload's seed
PointWithFactorOf(payload, k, hour_of_day) ==
    LET base_config == base_values(payload.parameter)
        seeded == np_random_seed(np_random_unseeded, payload.model_metadata.seed)
    IN 10 * Max(base_config.min * 10,
                Min(base_config.max * 10,
                    base_config.mean * time_factor(hour_of_day)
                        + base_config.std * np_random_normal(seeded, k - 1)))

\* C28: in the fallback tier the factor applied to each forecast point (1.2
\* for hours 6..18, 0.7 for hours 22..23 and 0..5, 1.0 otherwise) is that of
\* the hour-of-day of the point's own timestamp: the i-th point, stamped
\* now + i hours, uses the factor of hour (now + i hours).
C28_FactorOfThePointsOwnHour ==
    FallbackGenerated =>
        \A k \in DOMAIN response.predictions :
            response.predictions[k].value =
                PointWithFactorOf(response, k,
                                  hour(response.predictions[k].timestamp.hour))

\* each point carries the factor of the hour before its timestamp
C28_FactorOfTheHourBefore ==
    FallbackGenerated =>
        \A k \in DOMAIN response.predictions :
            response.predictions[k].value =
                PointWithFactorOf(response, k,
                                  hour(response.predictions[k].timestamp.hour - 1))

-----------------------------------------------------------------------------
(* The values of the trend tier's forecast points *)

\* the last request was answered by the trend tier
TrendServed ==
    /\ ServedValid
    /\ response.status = 200
    /\ response.model_metadata.model_type = "Trend-Based Forecast"

\* the values of the request's history in the store, oldest first
History ==
    LET rows == sorted_by_date(recent_measurements(db, request.city,
                                                   request.parameter))
    IN [i \in 1..Len(rows) |-> rows[i].value]

\* (mean + slope * steps) * factor10 / 10 clamped into [0, 1.5 * max], in
\* hundredths, where slope is the least-squares slope of the values against
\* their index 0..n-1: slope = P / D with P = n * sum(i * v[i]) - sum(i) * S
\* and D = n * sum(i^2) - sum(i)^2
TrendPointValue(values, steps, factor10) ==
    LET n == Len(values)
        S == Sum(values)
        Sx == Sum([i \in 1..n |-> i - 1])
        Sxx == Sum([i \in 1..n |-> (i - 1) * (i - 1)])
        Sxy == Sum([i \in 1..n |-> (i - 1) * values[i]])
        P == n * Sxy - Sx * S
        D == n * Sxx - Sx * Sx
        top == Max(0, CHOOSE v \in {values[i] : i \in 1..n} :
                          \A j \in 1..n : values[j] <= v)
        numer == IF D = 0 THEN S * factor10
                 ELSE (S * D + n * P * steps) * factor10
        denom == IF D = 0 THEN 10 * n ELSE 10 * n * D
    IN IF numer < 0 THEN 0
       ELSE IF 2 * numer > 3 * top * denom THEN 150 * top
       ELSE round2(numer, denom)

\* the factor of the hour of the k-th point's timestamp
FactorOfPoint(k) == diurnal_factor(hour(response.predictions[k].timestamp.hour))

\* C29: in the trend tier with n history points, the value of the i-th
\* forecast point, for i = 1..hours_ahead, is (mean + slope*(n+i)) *
\* diurnal_factor clamped into [0, 1.5*max], slope being the least-squares
\* slope of value against arrival index 0..n-1 of the time-ascending history;
\* the first point uses slope*(n+1).
C29_StepsFromNPlusOne ==
    TrendServed =>
        \A k \in DOMAIN response.predictions :
            response.predictions[k].value =
                TrendPointValue(History, Len(History) + k, FactorOfPoint(k))

\* C29, amended: the i-th forecast point, for i = 1..hours_ahead, is
\* (mean + slope*(n+i-1)) * diurnal_factor clamped into [0, 1.5*max] and
\* rounded to 2 places; the first point uses slope*n.
C29_StepsFromN ==
    TrendServed =>
        \A k \in DOMAIN response.predictions :
            response.predictions[k].value =
                TrendPointValue(History, Len(History) + k - 1, FactorOfPoint(k))

\* a trend response over a rising history whose first point is the value for
\* n steps and differs from the value for n + 1 steps
C29_Witness ==
    /\ TrendServed
    /\ response.model_metadata.trend = "increasing"
    /\ response.predictions[1].value =
           TrendPointValue(History, Len(History), FactorOfPoint(1))
    /\ response.predictions[1].value #
           TrendPointValue(History, Len(History) + 1, FactorOfPoint(1))

-----------------------------------------------------------------------------
(* DataIngestionManager: the unit normalisation of the ingestion (data_ingest.py) *)

\* a float given in thousandths: k / 1000
PyThousandths(k) ==
    IF k % 1000 = 0 THEN PyFloat(k \div 1000)
    ELSE [type |-> "float", n |-> k, s |-> "/1000"]

\* lines 521-530
_ppm_to_ugm3(parameter) ==
    CASE parameter = "NO2" -> 1880
      [] parameter = "O3" -> 2000
      [] parameter = "SO2" -> 2620
      [] parameter = "CO" -> 1150
      [] OTHER -> 1000

\* lines 532-534: _ppm_to_ugm3(parameter) / 1000, held in thousandths
_ppb_to_ugm3_1000(parameter) == _ppm_to_ugm3(parameter)

\* lines 506-513: the factors to µg/m³, in thousandths
conversion_factors_1000(parameter) ==
    [u \in {"µg/m³", "ug/m3", "mg/m³", "mg/m3", "ppm", "ppb"} |->
        CASE u \in {"µg/m³", "ug/m3"} -> 1000
          [] u \in {"mg/m³", "mg/m3"} -> 1000 * 1000
          [] u = "ppm" -> 1000 * _ppm_to_ugm3(parameter)
          [] u = "ppb" -> _ppb_to_ugm3_1000(parameter)]

\* lines 491-519
_normalize_units(value, unit0, parameter) ==
    LET unit == strip(lower(unit0))
        table == conversion_factors_1000(parameter)
        factor_1000 == IF unit \in DOMAIN table THEN table[unit] ELSE 1000
    IN <<PyThousandths(value * factor_1000), "µg/m³">>

\* DataIngestionManager._normalize_units(value, unit, parameter)
NormalizeUnits ==
    /\ conv_in # <<>>
    /\ norm_out = <<>>
    /\ norm_out' = _normalize_units(conv_in[1], conv_in[2], conv_in[3])
    /\ UNCHANGED <<now, cleanVars, conv_in, conv_out, conv_again, outVars,
                   apiVars>>

NextNormalize == ConvertUnits \/ NormalizeUnits

SpecNormalize == InitConvert /\ [][NextNormalize]_vars

\* both call sites have returned for the same (value, unit, parameter)
BothConverted == conv_out # <<>> /\ norm_out # <<>>

TableUnits == {"µg/m³", "ug/m3", "mg/m³", "mg/m3", "ppm", "ppb"}

\* C30: the two unit-normalisation call sites agree: for every value, every
\* unit in {µg/m³, ug/m3, mg/m³, mg/m3, ppm, ppb} and every parameter in
\* {PM2.5, O3, NO2, HCHO}, _normalize_units returns the same (value, unit) as
\* _convert_units, and for a unit outside the tables neither returns the
\* unconverted value labelled 'µg/m³'.
C30_CallSitesAgree ==
    BothConverted =>
        /\ (/\ conv_in[2] \in TableUnits
            /\ conv_in[3] \in {"PM2.5", "O3", "NO2", "HCHO"})
              => norm_out = conv_out
        /\ strip(lower(conv_in[2])) \notin DOMAIN UNIT_CONVERSIONS \cup TableUnits
              => /\ norm_out # <<PyFloat(conv_in[1]), "µg/m³">>
                 /\ conv_out # <<PyFloat(conv_in[1]), "µg/m³">>

\* the two call sites agree on the mass units, and on ppm and ppb of PM2.5
C30_AgreeOnMassUnits ==
    (/\ BothConverted
     /\ conv_in[3] \in {"PM2.5", "O3", "NO2", "HCHO"}
     /\ \/ conv_in[2] \in {"µg/m³", "ug/m3", "mg/m³", "mg/m3"}
        \/ conv_in[2] \in {"ppm", "ppb"} /\ conv_in[3] = "PM2.5")
        => norm_out = conv_out

\* they disagree on ppm and ppb of every gas with a non-zero value
C30_DisagreeOnGases ==
    (/\ BothConverted
     /\ conv_in[1] # 0
     /\ conv_in[2] \in {"ppm", "ppb"}
     /\ conv_in[3] \in {"O3", "NO2", "HCHO"})
        => norm_out # conv_out

=============================================================================
